---- MODULE Spec2Model ----
(***************************************************************************)
(* Go-Framebuffer-Console: the raw-terminal input driver (pkg/input), the  *)
(* framebuffer pixel engine (pkg/framebuffer) and the orchestrator         *)
(* (cmd/main) as state machines.                                           *)
(*                                                                         *)
(* Specifications:                                                         *)
(*   SpecKbd    a client calling the KeyboardInput API in any order        *)
(*   Spec       the application life cycle: startup, run, shutdown         *)
(*   SpecFB     a client calling the FrameBuffer API sequentially          *)
(*   SpecFBConc FrameBuffer.Close racing with concurrent writers           *)
(***************************************************************************)
EXTENDS Integers, Sequences, FiniteSets, TLC

VARIABLES
    ki,          \* the KeyboardInput struct (renderer.go:316-323)
    w,           \* the world outside the process: terminal + system-call log
    ret,         \* the last KeyboardInput API call: number, name, inputs, result
    origTermios, \* the terminal attributes when the program started
    fb,          \* the FrameBuffer struct (framebuffer.go:19-29)
    fbw,         \* the display device: mapped memory, mapping state, call log
    fbret,       \* the last FrameBuffer API call: number, name, arguments
    fbMu,        \* FrameBuffer.mu, a sync.RWMutex: its readers and its writer
    thr,         \* the goroutines calling the FrameBuffer concurrently
    app,         \* the Application struct (main.go Application)
    pc,          \* where the main, the signal and the listener goroutine stand
    loc,         \* the local variables of those goroutines
    chan,        \* Application.keyEventChan, a channel of capacity 1
    tty,         \* the user's side: bytes typed and not yet read, signal sent
    kiMu,        \* KeyboardInput.mu: the goroutine blocked in ReadKey holding it
    proc,        \* the process: running, aborted at startup, or exited
    out,         \* what the last step of the application wrote: log, screen
    hist         \* the way of each key through the program, kept in SpecRelay

kbdVars == <<ki, w, ret, origTermios>>

fbVars == <<fb, fbw, fbret>>

concVars == <<fbMu, thr>>

appVars == <<app, pc, loc, chan, tty, kiMu, proc, out, hist>>

vars == <<ki, w, ret, origTermios, fb, fbw, fbret, fbMu, thr, app, pc, loc, chan, tty,
          kiMu, proc, out, hist>>

----------------------------------------------------------------------------
(* Bounds *)

\* number of KeyboardInput API calls a client makes in SpecKbd
MaxCalls == 4

\* number of FrameBuffer API calls a client makes in SpecFB
MaxFbCalls == 2

\* number of goroutines that call the FrameBuffer concurrently in SpecFBConc
MaxThreads == 2

\* keys typed and not yet handled
MaxPending == 1

----------------------------------------------------------------------------
(* Terminal attributes (syscall.Termios).  A flag word is the set of its    *)
(* set bits, each bit named by its mask value on linux.                     *)

\* c_lflag bits: ISIG 1, ICANON 2, ECHO 8, ECHOE 16, ECHOK 32, ECHONL 64,
\* TOSTOP 256, ECHOCTL 512, ECHOPRT 1024, ECHOKE 2048, IEXTEN 32768
\* c_iflag bits: ICRNL 256, IXON 1024, IXANY 2048, IXOFF 4096

\* renderer.go:405  ICANON|ECHO|ECHOE|ECHOK|ECHONL|ECHOPRT|ECHOKE|ICRNL,
\* all applied to Lflag (ICRNL's value 256 is TOSTOP there)
LflagCleared == {2, 8, 16, 32, 64, 1024, 2048, 256}

\* renderer.go:407  IXON|IXOFF|IXANY
IflagCleared == {1024, 4096, 2048}

\* the zero value of syscall.Termios in a freshly allocated KeyboardInput
ZeroTermios == [iflag |-> {}, lflag |-> {}, vmin |-> 0, vtime |-> 0]

\* terminal settings the program may be started under
InitialTermios ==
    { [iflag |-> {256, 1024}, lflag |-> {1, 2, 8, 16, 32, 512, 2048, 32768},
       vmin |-> 1, vtime |-> 0],
      [iflag |-> {256, 1024, 2048}, lflag |-> {1, 2, 8, 256}, vmin |-> 4, vtime |-> 5],
      [iflag |-> {}, lflag |-> {1}, vmin |-> 1, vtime |-> 0] }

\* renderer.go:403-410: the attributes setRawMode applies
RawTermios(old) ==
    [iflag |-> old.iflag \ IflagCleared,
     lflag |-> old.lflag \ LflagCleared,
     vmin  |-> 1,
     vtime |-> 0]

----------------------------------------------------------------------------
(* KeyboardInput *)

NilKi == [exists |-> FALSE, device |-> "nil", ttyDevice |-> "nil",
          oldTermios |-> ZeroTermios, closed |-> FALSE, restored |-> FALSE]

\* system-call log: how often each effect on the terminal devices happened
ZeroSys == [tcgets |-> 0, restoreApplied |-> 0, showWrites |-> 0, showFails |-> 0,
            hideWrites |-> 0, stdinCloses |-> 0, ttyCloses |-> 0, reads |-> 0]

Bump(world, field) == [world EXCEPT !.sys[field] = @ + 1]

\* renderer.go:705-711  write ESC[?25l to the control stream
hideCursor(k, world, ok) ==
    IF k.ttyDevice = "nil" THEN [w |-> world, err |-> FALSE]
    ELSE IF ok THEN [w |-> [Bump(world, "hideWrites") EXCEPT !.cursor = FALSE], err |-> FALSE]
    ELSE [w |-> Bump(world, "hideWrites"), err |-> TRUE]

\* renderer.go:714-720  write ESC[?25h to the control stream
showCursor(k, world, ok) ==
    IF k.ttyDevice = "nil" THEN [w |-> world, err |-> FALSE]
    ELSE IF ok THEN [w |-> [Bump(world, "showWrites") EXCEPT !.cursor = TRUE], err |-> FALSE]
    ELSE [w |-> Bump(Bump(world, "showWrites"), "showFails"), err |-> TRUE]

\* a defect: the snapshot is taken from the attributes being applied
setRawMode_SnapshotAfter(k, world, getOk, setOk, hideOk) ==
    IF ~getOk THEN [ki |-> k, w |-> world, err |-> {"tcgets"}]
    ELSE LET k1 == [k EXCEPT !.oldTermios = RawTermios(world.termios)]
             w1 == Bump(world, "tcgets")
         IN IF ~setOk THEN [ki |-> k1, w |-> w1, err |-> {"tcsets"}]
            ELSE LET h == hideCursor(k1, [w1 EXCEPT !.termios = RawTermios(world.termios)], hideOk)
                 IN [ki |-> k1, w |-> h.w, err |-> IF h.err THEN {"hideCursor"} ELSE {}]

\* renderer.go:390-427
setRawMode(k, world, getOk, setOk, hideOk) ==
    IF ~getOk THEN [ki |-> k, w |-> world, err |-> {"tcgets"}]
    ELSE LET k1 == [k EXCEPT !.oldTermios = world.termios]
             w1 == Bump(world, "tcgets")
             newTermios == RawTermios(k1.oldTermios)
         IN IF ~setOk THEN [ki |-> k1, w |-> w1, err |-> {"tcsets"}]
            ELSE LET h == hideCursor(k1, [w1 EXCEPT !.termios = newTermios], hideOk)
                 IN [ki |-> k1, w |-> h.w, err |-> IF h.err THEN {"hideCursor"} ELSE {}]

\* renderer.go:358-386
NewKeyboardInput(world, stdinOk, ttyOk, getOk, setOk, hideOk) ==
    IF ~stdinOk THEN [ki |-> NilKi, w |-> world, err |-> {"open"}]
    ELSE LET k0 == [NilKi EXCEPT !.exists = TRUE, !.device = "open",
                                 !.ttyDevice = IF ttyOk THEN "tty" ELSE "stdout"]
             r  == setRawMode(k0, world, getOk, setOk, hideOk)
         IN IF r.err # {}
            THEN [ki |-> NilKi,
                  w  |-> IF k0.ttyDevice # "stdout"
                         THEN Bump(Bump(r.w, "stdinCloses"), "ttyCloses")
                         ELSE Bump(r.w, "stdinCloses"),
                  err |-> r.err]
            ELSE [ki |-> r.ki, w |-> r.w, err |-> {}]

\* a defect: the restored flag is not consulted
restoreTerminalUnsafe_NoGuard(k, world, showOk, setOk) ==
    IF k.device = "nil" THEN [ki |-> k, w |-> world, err |-> FALSE]
    ELSE LET s == showCursor(k, world, showOk)
         IN IF ~setOk THEN [ki |-> k, w |-> s.w, err |-> TRUE]
            ELSE [ki |-> [k EXCEPT !.restored = TRUE],
                  w  |-> [Bump(s.w, "restoreApplied") EXCEPT !.termios = k.oldTermios],
                  err |-> FALSE]

\* renderer.go:679-702  (the descriptor of an open *os.File is never negative)
restoreTerminalUnsafe(k, world, showOk, setOk) ==
    IF k.device = "nil" \/ k.restored THEN [ki |-> k, w |-> world, err |-> FALSE]
    ELSE LET s == showCursor(k, world, showOk)
         IN IF ~setOk THEN [ki |-> k, w |-> s.w, err |-> TRUE]
            ELSE [ki |-> [k EXCEPT !.restored = TRUE],
                  w  |-> [Bump(s.w, "restoreApplied") EXCEPT !.termios = k.oldTermios],
                  err |-> FALSE]

\* renderer.go:673-677
RestoreTerminal(k, world, showOk, setOk) ==
    LET r == restoreTerminalUnsafe(k, world, showOk, setOk)
    IN [ki |-> r.ki, w |-> r.w, err |-> IF r.err THEN {"restore"} ELSE {}]

\* a defect: a failed restore returns at once
Close_EarlyReturn(k, world, showOk, setOk, devOk, ttyOk) ==
    IF k.closed THEN [ki |-> k, w |-> world, err |-> {}]
    ELSE LET r  == IF ~k.restored THEN restoreTerminalUnsafe(k, world, showOk, setOk)
                   ELSE [ki |-> k, w |-> world, err |-> FALSE]
         IN IF r.err THEN [ki |-> r.ki, w |-> r.w, err |-> {"restore"}]
            ELSE LET hasDev == r.ki.device # "nil"
                     hasTty == r.ki.ttyDevice # "nil" /\ r.ki.ttyDevice # "stdout"
                     w1 == IF hasDev THEN Bump(r.w, "stdinCloses") ELSE r.w
                     w2 == IF hasTty THEN Bump(w1, "ttyCloses") ELSE w1
                 IN [ki |-> [r.ki EXCEPT !.device = "nil",
                                        !.ttyDevice = IF hasTty THEN "nil" ELSE @,
                                        !.closed = TRUE],
                     w  |-> w2,
                     err |-> (IF hasDev /\ ~devOk THEN {"device"} ELSE {})
                             \cup (IF hasTty /\ ~ttyOk THEN {"tty"} ELSE {})]

\* renderer.go:628-671.  The returned error is the set of the sub-errors its
\* message joins.
Close(k, world, showOk, setOk, devOk, ttyOk) ==
    IF k.closed THEN [ki |-> k, w |-> world, err |-> {}]
    ELSE LET r  == IF ~k.restored THEN restoreTerminalUnsafe(k, world, showOk, setOk)
                   ELSE [ki |-> k, w |-> world, err |-> FALSE]
             e1 == IF r.err THEN {"restore"} ELSE {}
             hasDev == r.ki.device # "nil"
             w1 == IF hasDev THEN Bump(r.w, "stdinCloses") ELSE r.w
             e2 == IF hasDev /\ ~devOk THEN e1 \cup {"device"} ELSE e1
             k2 == [r.ki EXCEPT !.device = "nil"]
             hasTty == k2.ttyDevice # "nil" /\ k2.ttyDevice # "stdout"
             w2 == IF hasTty THEN Bump(w1, "ttyCloses") ELSE w1
             e3 == IF hasTty /\ ~ttyOk THEN e2 \cup {"tty"} ELSE e2
             k3 == IF hasTty THEN [k2 EXCEPT !.ttyDevice = "nil"] ELSE k2
         IN [ki |-> [k3 EXCEPT !.closed = TRUE], w |-> w2, err |-> e3]

\* renderer.go:429-446  one blocking read of a byte
ReadKey(k, world, readOk) ==
    IF k.closed \/ k.device = "nil" THEN [ki |-> k, w |-> world, err |-> {"closed"}]
    ELSE [ki |-> k, w |-> Bump(world, "reads"), err |-> IF readOk THEN {} ELSE {"read"}]

NoRet == [n |-> 0, op |-> "none", in |-> <<>>, pre |-> NilKi, err |-> {}]

\* no KeyboardInput in use
KbdIdle ==
    /\ origTermios = ZeroTermios
    /\ w = [termios |-> ZeroTermios, cursor |-> TRUE, sys |-> ZeroSys]
    /\ ki = NilKi
    /\ ret = NoRet

----------------------------------------------------------------------------
(* FrameBuffer (pkg/framebuffer) *)

\* what the two screen-info ioctls report: XRes, YRes, BitsPerPixel,
\* LineLength (bytes per row, padding included) and SmemLen.  The last two
\* describe a device whose mapped memory is shorter than YRes rows.
Geometries ==
    { [width |-> 2, height |-> 2, bpp |-> 16, lineLength |-> 4, smemLen |-> 8],
      [width |-> 2, height |-> 2, bpp |-> 24, lineLength |-> 8, smemLen |-> 16],
      [width |-> 2, height |-> 2, bpp |-> 32, lineLength |-> 8, smemLen |-> 16],
      [width |-> 2, height |-> 1, bpp |-> 8,  lineLength |-> 2, smemLen |-> 2],
      [width |-> 2, height |-> 2, bpp |-> 32, lineLength |-> 8, smemLen |-> 12],
      [width |-> 2, height |-> 2, bpp |-> 16, lineLength |-> 4, smemLen |-> 7] }

\* colours as color.RGBA values (8 bits per channel, alpha-premultiplied)
Colours ==
    { [r |-> 255, g |-> 255, b |-> 255, a |-> 255],
      [r |-> 135, g |-> 67,  b |-> 9,   a |-> 255],
      [r |-> 16,  g |-> 32,  b |-> 48,  a |-> 128] }

ColourSeq ==
    << [r |-> 255, g |-> 255, b |-> 255, a |-> 255],
       [r |-> 135, g |-> 67,  b |-> 9,   a |-> 255],
       [r |-> 16,  g |-> 32,  b |-> 48,  a |-> 128],
       [r |-> 0,   g |-> 0,   b |-> 0,   a |-> 0] >>

\* color.RGBA.RGBA(): each 8-bit channel widened to 16 bits (v<<8 | v)
RGBA16(c) == [r |-> c.r * 256 + c.r, g |-> c.g * 256 + c.g,
              b |-> c.b * 256 + c.b, a |-> c.a * 256 + c.a]

\* images: bounds rectangle (Min.X, Min.Y, Dx, Dy) and a pixel pattern
Images ==
    { [minX |-> 0, minY |-> 0, dx |-> 2, dy |-> 1, seed |-> 0],
      [minX |-> 1, minY |-> 1, dx |-> 1, dy |-> 2, seed |-> 1],
      [minX |-> 0, minY |-> 0, dx |-> 3, dy |-> 3, seed |-> 2] }

\* image.Image.At
At(img, sx, sy) == ColourSeq[((sx + 2 * sy + img.seed) % 4) + 1]

\* the handle NewFrameBuffer returns for a device of geometry g
\* (framebuffer.go:149-151 and 184)
OpenFrameBuffer(g) ==
    [device |-> "open", width |-> g.width, height |-> g.height, bpp |-> g.bpp,
     lineLength |-> g.lineLength, fbData |-> [nil |-> FALSE, len |-> g.smemLen],
     closed |-> FALSE]

\* the device after a successful mmap; the screen shows what it showed before
MappedDevice(g) ==
    [mem |-> [i \in 0..(g.smemLen - 1) |-> 170], mapped |-> TRUE, fault |-> FALSE,
     munmaps |-> 0, devCloses |-> 0, devOpens |-> 1, ioctls |-> 2, mmaps |-> 1]

\* fb.fbData[i] = v: an index outside the slice or a write to memory that is
\* no longer mapped is a fault (index-out-of-range panic, segmentation fault)
Store(f, world, i, v) ==
    IF ~world.fault /\ world.mapped /\ ~f.fbData.nil /\ i >= 0 /\ i < f.fbData.len
    THEN [world EXCEPT !.mem[i] = v % 256]
    ELSE [world EXCEPT !.fault = TRUE]

\* framebuffer.go:243-257: the per-format encoding of SetPixel.  r, g, b are
\* at most 255, so the three shifted fields of the 16-bit pixel share no bit
\* and their bitwise OR is their sum.
EncodePixel(f, world, offset, r, g, b) ==
    CASE f.bpp = 16 ->
           LET pixel == (((r \div 8) * 8) * 256 + ((g \div 4) * 4) * 8 + (b \div 8)) % 65536
           IN Store(f, Store(f, world, offset, pixel % 256), offset + 1, pixel \div 256)
      [] f.bpp = 24 ->
           Store(f, Store(f, Store(f, world, offset, b), offset + 1, g), offset + 2, r)
      [] f.bpp = 32 ->
           Store(f, Store(f, Store(f, Store(f, world, offset, b), offset + 1, g),
                       offset + 2, r), offset + 3, 0)
      [] OTHER -> world

\* framebuffer.go:318-332: the per-format encoding of setPixelUnsafe
EncodePixelUnsafe(f, world, offset, r, g, b) ==
    CASE f.bpp = 16 ->
           LET pixel == (((r \div 8) * 8) * 256 + ((g \div 4) * 4) * 8 + (b \div 8)) % 65536
           IN Store(f, Store(f, world, offset, pixel % 256), offset + 1, pixel \div 256)
      [] f.bpp = 24 ->
           Store(f, Store(f, Store(f, world, offset, b), offset + 1, g), offset + 2, r)
      [] f.bpp = 32 ->
           Store(f, Store(f, Store(f, Store(f, world, offset, b), offset + 1, g),
                       offset + 2, r), offset + 3, 0)
      [] OTHER -> world

\* a defect: the offset is not checked against the mapped length
SetPixel_NoOffsetCheck(f, world, x, y, c) ==
    IF f.closed \/ f.fbData.nil THEN world
    ELSE IF x < 0 \/ x >= f.width \/ y < 0 \/ y >= f.height THEN world
    ELSE LET c16 == RGBA16(c)
             offset == y * f.lineLength + x * (f.bpp \div 8)
         IN EncodePixel(f, world, offset, c16.r \div 256, c16.g \div 256, c16.b \div 256)

\* framebuffer.go:218-240: SetPixel's checks pass and it goes on to write
SetPixelChecks(f, x, y) ==
    /\ ~(f.closed \/ f.fbData.nil)
    /\ ~(x < 0 \/ x >= f.width \/ y < 0 \/ y >= f.height)
    /\ LET offset == y * f.lineLength + x * (f.bpp \div 8)
           bytesPerPixel == f.bpp \div 8
       IN ~(offset < 0 \/ offset + bytesPerPixel > f.fbData.len)

\* a defect: rows are taken to be packed, without the padding of LineLength
SetPixelStores_PackedRows(f, world, x, y, c) ==
    LET c16 == RGBA16(c)
        offset == y * (f.width * (f.bpp \div 8)) + x * (f.bpp \div 8)
    IN EncodePixel(f, world, offset, c16.r \div 256, c16.g \div 256, c16.b \div 256)

\* framebuffer.go:228-234 and 243-257: the stores of SetPixel
SetPixelStores(f, world, x, y, c) ==
    LET c16 == RGBA16(c)
        r == c16.r \div 256
        g == c16.g \div 256
        b == c16.b \div 256
        offset == y * f.lineLength + x * (f.bpp \div 8)
    IN EncodePixel(f, world, offset, r, g, b)

\* framebuffer.go:213-258
SetPixel(f, world, x, y, c) ==
    IF SetPixelChecks(f, x, y) THEN SetPixelStores(f, world, x, y, c) ELSE world

\* a defect: the red and blue bytes are swapped
setPixelUnsafe_SwapRB(f, world, x, y, c) ==
    IF x < 0 \/ x >= f.width \/ y < 0 \/ y >= f.height THEN world
    ELSE LET c16 == RGBA16(c)
             offset == y * f.lineLength + x * (f.bpp \div 8)
         IN IF offset < 0 \/ offset + (f.bpp \div 8) > f.fbData.len THEN world
            ELSE EncodePixelUnsafe(f, world, offset, c16.b \div 256, c16.g \div 256,
                                   c16.r \div 256)

\* framebuffer.go:296-333
setPixelUnsafe(f, world, x, y, c) ==
    IF x < 0 \/ x >= f.width \/ y < 0 \/ y >= f.height THEN world
    ELSE LET c16 == RGBA16(c)
             r == c16.r \div 256
             g == c16.g \div 256
             b == c16.b \div 256
             offset == y * f.lineLength + x * (f.bpp \div 8)
             bytesPerPixel == f.bpp \div 8
         IN IF offset < 0 \/ offset + bytesPerPixel > f.fbData.len THEN world
            ELSE EncodePixelUnsafe(f, world, offset, r, g, b)

\* framebuffer.go:336-349
min(a, b) == IF a < b THEN a ELSE b

max(a, b) == IF a > b THEN a ELSE b

\* framebuffer.go:279-280: the pixels the two nested loops visit, in order
LoopPixels(startX, startY, endX, endY) ==
    LET nx == max(0, endX - startX)
        ny == max(0, endY - startY)
    IN [k \in 1..(nx * ny) |-> <<startX + ((k - 1) % nx), startY + ((k - 1) \div nx)>>]

\* framebuffer.go:273-276: the clipped rectangle of DrawImage(img, x, y)
ClippedPixels(f, img, x, y) ==
    LoopPixels(max(0, x), max(0, y), min(f.width, x + img.dx), min(f.height, y + img.dy))

\* framebuffer.go:281-288: the loop body for device pixel p
DrawPixel(f, world, img, x, y, p) ==
    LET srcX == img.minX + (p[1] - x)
        srcY == img.minY + (p[2] - y)
    IN setPixelUnsafe(f, world, p[1], p[2], At(img, srcX, srcY))

RECURSIVE DrawImageLoop(_, _, _, _, _, _)
DrawImageLoop(f, world, img, x, y, todo) ==
    IF todo = <<>> THEN world
    ELSE DrawImageLoop(f, DrawPixel(f, world, img, x, y, Head(todo)), img, x, y, Tail(todo))

\* framebuffer.go:262-291
DrawImage(f, world, img, x, y) ==
    IF f.closed \/ f.fbData.nil THEN world
    ELSE DrawImageLoop(f, world, img, x, y, ClippedPixels(f, img, x, y))

\* a defect: only the visible bytes of each row are zeroed, not the padding
Clear_NoPadding(f, world) ==
    IF f.closed \/ f.fbData.nil THEN world
    ELSE IF ~world.mapped THEN [world EXCEPT !.fault = TRUE]
    ELSE [world EXCEPT !.mem = [i \in DOMAIN world.mem |->
                                  IF i % f.lineLength < f.width * (f.bpp \div 8)
                                  THEN 0 ELSE @[i]]]

\* framebuffer.go:196-208
Clear(f, world) ==
    IF f.closed \/ f.fbData.nil THEN world
    ELSE IF ~world.mapped THEN [world EXCEPT !.fault = TRUE]
    ELSE [world EXCEPT !.mem = [i \in DOMAIN world.mem |-> IF i < f.fbData.len THEN 0 ELSE @[i]]]

\* framebuffer.go:363  syscall.Munmap(fb.fbData)
Munmap(world, munmapOk) ==
    [world EXCEPT !.munmaps = @ + 1, !.mapped = IF munmapOk THEN FALSE ELSE @]

\* a defect: the handle is marked closed only when no step failed
CloseAfterMunmap_OpenOnError(f, world, e1, closeOk) ==
    LET f1 == [f EXCEPT !.fbData = [nil |-> TRUE, len |-> 0]]
        hasDev == f1.device # "nil"
        w2 == IF hasDev THEN [world EXCEPT !.devCloses = @ + 1] ELSE world
        e2 == IF hasDev /\ ~closeOk THEN e1 \cup {"device"} ELSE e1
    IN [fb |-> [f1 EXCEPT !.device = "nil", !.closed = (e2 = {})], fbw |-> w2, err |-> e2]

\* framebuffer.go:366-382: Close after the munmap call; e1 is its error so far
CloseAfterMunmap(f, world, e1, closeOk) ==
    LET f1 == [f EXCEPT !.fbData = [nil |-> TRUE, len |-> 0]]
        hasDev == f1.device # "nil"
        w2 == IF hasDev THEN [world EXCEPT !.devCloses = @ + 1] ELSE world
        e2 == IF hasDev /\ ~closeOk THEN e1 \cup {"device"} ELSE e1
    IN [fb |-> [f1 EXCEPT !.device = "nil", !.closed = TRUE], fbw |-> w2, err |-> e2]

\* framebuffer.go:351-383.  The returned error is the set of the sub-errors
\* its message joins.
FrameBufferClose(f, world, munmapOk, closeOk) ==
    IF f.closed THEN [fb |-> f, fbw |-> world, err |-> {}]
    ELSE LET hasMap == ~f.fbData.nil
             w1 == IF hasMap THEN Munmap(world, munmapOk) ELSE world
             e1 == IF hasMap /\ ~munmapOk THEN {"munmap"} ELSE {}
         IN CloseAfterMunmap(f, w1, e1, closeOk)

\* the display device before it is opened: nothing mapped, no system call made
ClosedDevice ==
    [mem |-> <<>>, mapped |-> FALSE, fault |-> FALSE, munmaps |-> 0, devCloses |-> 0,
     devOpens |-> 0, ioctls |-> 0, mmaps |-> 0]

\* no FrameBuffer in use
NilFb == [device |-> "nil", width |-> 0, height |-> 0, bpp |-> 0, lineLength |-> 0,
          fbData |-> [nil |-> TRUE, len |-> 0], closed |-> FALSE]

\* framebuffer.go:162: the largest SmemLen mapMemory accepts, 1 GiB
MaxSmemLen == 1073741824

\* what the ioctls of the devices NewFrameBuffer is tried on report: the
\* geometries above, and a driver reporting no memory or more than 1 GiB
OpenDevices ==
    Geometries \cup
    { [width |-> 2, height |-> 2, bpp |-> 32, lineLength |-> 8, smemLen |-> n] :
        n \in {0, MaxSmemLen + 1} }

\* framebuffer.go:129-154: the two screen-info ioctls
getScreenInfo(f, world, g, fixOk, varOk) ==
    IF ~fixOk
    THEN [fb |-> f, fbw |-> [world EXCEPT !.ioctls = @ + 1], err |-> {"fscreeninfo"}]
    ELSE LET f1 == [f EXCEPT !.lineLength = g.lineLength]
             w2 == [world EXCEPT !.ioctls = @ + 2]
         IN IF ~varOk THEN [fb |-> f1, fbw |-> w2, err |-> {"vscreeninfo"}]
            ELSE [fb  |-> [f1 EXCEPT !.width = g.width, !.height = g.height,
                                     !.bpp = g.bpp],
                  fbw |-> w2, err |-> {}]

\* framebuffer.go:158-186.  syscall.Mmap returns a slice of the length asked
\* for, or an error.
mapMemory(f, world, g, mmapOk) ==
    LET screenSize == g.smemLen
    IN IF screenSize <= 0 \/ screenSize > MaxSmemLen
       THEN [fb |-> f, fbw |-> world, err |-> {"size"}]
       ELSE IF ~mmapOk
            THEN [fb |-> f, fbw |-> [world EXCEPT !.mmaps = @ + 1], err |-> {"mmap"}]
       ELSE LET len == screenSize
            IN IF len # screenSize
               THEN [fb |-> f,
                     fbw |-> [world EXCEPT !.mmaps = @ + 1, !.munmaps = @ + 1],
                     err |-> {"mismatch"}]
               ELSE [fb  |-> [f EXCEPT !.fbData = [nil |-> FALSE, len |-> len]],
                     fbw |-> [world EXCEPT !.mmaps = @ + 1, !.mapped = TRUE,
                                           !.mem = [i \in 0..(len - 1) |-> 170]],
                     err |-> {}]

\* a defect: a failed mapMemory leaves the descriptor open
NewFrameBuffer_LeakOnMapError(world, g, openOk, fixOk, varOk, mmapOk) ==
    IF ~openOk THEN [fb |-> NilFb, fbw |-> world, err |-> {"open"}]
    ELSE LET f0 == [NilFb EXCEPT !.device = "open"]
             w0 == [world EXCEPT !.devOpens = @ + 1]
             s  == getScreenInfo(f0, w0, g, fixOk, varOk)
             m  == mapMemory(s.fb, s.fbw, g, mmapOk)
         IN IF s.err # {}
            THEN [fb |-> NilFb, fbw |-> [s.fbw EXCEPT !.devCloses = @ + 1], err |-> s.err]
            ELSE IF m.err # {}
            THEN [fb |-> NilFb, fbw |-> m.fbw, err |-> m.err]
            ELSE [fb |-> m.fb, fbw |-> m.fbw, err |-> {}]

\* framebuffer.go:100-125.  A failure returns no handle.
NewFrameBuffer(world, g, openOk, fixOk, varOk, mmapOk) ==
    IF ~openOk THEN [fb |-> NilFb, fbw |-> world, err |-> {"open"}]
    ELSE LET f0 == [NilFb EXCEPT !.device = "open"]
             w0 == [world EXCEPT !.devOpens = @ + 1]
             s  == getScreenInfo(f0, w0, g, fixOk, varOk)
             m  == mapMemory(s.fb, s.fbw, g, mmapOk)
         IN IF s.err # {}
            THEN [fb |-> NilFb, fbw |-> [s.fbw EXCEPT !.devCloses = @ + 1], err |-> s.err]
            ELSE IF m.err # {}
            THEN [fb |-> NilFb, fbw |-> [m.fbw EXCEPT !.devCloses = @ + 1], err |-> m.err]
            ELSE [fb |-> m.fb, fbw |-> m.fbw, err |-> {}]

NoFbRet == [n |-> 0, op |-> "none", args |-> <<>>, err |-> {}]

FbIdle ==
    /\ fb = NilFb
    /\ fbw = ClosedDevice
    /\ fbret = NoFbRet

\* FrameBuffer.mu unlocked
FreeMu == [readers |-> {}, writer |-> 0]

\* no concurrent callers
ConcIdle ==
    /\ fbMu = FreeMu
    /\ thr = <<>>

\* part_006:28-39  NewMenuRenderer: nothing is cached
NewMenuRenderer == [lastContent |-> <<>>, needsClear |-> TRUE, staticRendered |-> FALSE]

\* framebuffer.go:447-456  the snapshots GetSystemInfo can return
Snapshots == [Uptime : {1}, CurrentTime : {1, 2}]

NoInfo == [Uptime |-> 0, CurrentTime |-> 0]

\* part_006:378-391  the fields of the snapshot, joined
generateNewMainMenuContent(sysInfo) == <<sysInfo.Uptime, sysInfo.CurrentTime>>

\* part_006:177-181
InvalidateCache(m) == [lastContent |-> <<>>, needsClear |-> TRUE, staticRendered |-> FALSE]

\* a defect: the static-content flag is not consulted
RenderMainMenu_IgnoreFlag(m, sysInfo, renderOk) ==
    LET currentContent == generateNewMainMenuContent(sysInfo)
    IN IF currentContent = m.lastContent
       THEN [mr |-> m, kind |-> "skip", err |-> FALSE]
       ELSE IF ~renderOk
            THEN [mr |-> [m EXCEPT !.needsClear = FALSE], kind |-> "cleared",
                  err |-> TRUE]
       ELSE [mr |-> [lastContent |-> currentContent, needsClear |-> FALSE,
                     staticRendered |-> TRUE],
             kind |-> "full", err |-> FALSE]

\* part_006:41-65  RenderMainMenu.  kind: what it does to the framebuffer:
\* "skip" nothing, "cleared" Clear and a failed rendering, "full" Clear and
\* the whole page
RenderMainMenu(m, sysInfo, renderOk) ==
    LET currentContent == generateNewMainMenuContent(sysInfo)
    IN IF currentContent = m.lastContent /\ m.staticRendered
       THEN [mr |-> m, kind |-> "skip", err |-> FALSE]
       ELSE IF ~renderOk
            THEN [mr |-> [m EXCEPT !.needsClear = FALSE], kind |-> "cleared",
                  err |-> TRUE]
       ELSE [mr |-> [lastContent |-> currentContent, needsClear |-> FALSE,
                     staticRendered |-> TRUE],
             kind |-> "full", err |-> FALSE]

\* part_006:150-174  RenderConfigMenu
RenderConfigMenu(m, renderOk) ==
    [mr |-> [m EXCEPT !.needsClear = TRUE, !.staticRendered = FALSE],
     kind |-> IF renderOk THEN "full" ELSE "cleared", err |-> ~renderOk]

\* part_006:183-223  RenderNetworkInfo and RenderMessage
RenderMessage(m, renderOk) ==
    [mr |-> m, kind |-> IF renderOk THEN "full" ELSE "cleared", err |-> ~renderOk]

\* part_002:856-863  showMainMenu: the snapshot is taken, then painted
showMainMenu(m, infoOk, sysInfo, renderOk) ==
    IF ~infoOk
    THEN [mr |-> m, kind |-> "none", err |-> TRUE, sysInfo |-> NoInfo]
    ELSE LET r == RenderMainMenu(m, sysInfo, renderOk)
         IN [mr |-> r.mr, kind |-> r.kind, err |-> r.err, sysInfo |-> sysInfo]

\* what a step writes: to the log, about a control key, a signal or a failed
\* paint of the main page, and to the framebuffer
Quiet == [log |-> <<>>, page |-> "none", kind |-> "none", sysInfo |-> NoInfo]

Logged(entry) == [Quiet EXCEPT !.log = entry]

Painted(page, kind, sysInfo) ==
    [log |-> <<>>, page |-> page, kind |-> kind, sysInfo |-> sysInfo]

\* the step has written to the framebuffer
Wrote(o) == o.kind \in {"cleared", "full"}

\* main.go NewApplication: the Application before its components exist
NewApp(disableCtrlC) ==
    [running |-> FALSE, cancelled |-> FALSE, keyboard |-> "nil", fb |-> "nil",
     disableCtrlC |-> disableCtrlC, mu |-> "none", menuRenderer |-> NewMenuRenderer]

NoLoc == [dlg |-> "none", nested |-> FALSE, panicking |-> FALSE, key |-> 0,
          action |-> "none", ticker |-> "none"]

\* the way of the keys: how many were typed, how many bytes were read from the
\* terminal, which key (by its number of arrival) the listener holds, which one
\* is in keyEventChan, which ones the main goroutine took, in that order, and
\* how many had been typed when the last dialog page was painted.  Only
\* SpecRelay keeps it.
NoHist == [on |-> FALSE, arrived |-> 0, read |-> 0, held |-> 0, sent |-> 0,
           taken |-> <<>>, shown |-> 0]

\* the user types a key
HistTyped(h) == IF h.on THEN [h EXCEPT !.arrived = @ + 1] ELSE h

\* part_002:749: the listener's read returns; with a key, it is the next byte
\* of the terminal
HistPolled(h, available) ==
    IF h.on /\ available THEN [h EXCEPT !.read = @ + 1, !.held = h.read + 1] ELSE h

\* part_002:760-766: the listener's select is over: the key is in the channel,
\* or gone
HistOffered(h, sent) ==
    IF h.on THEN [h EXCEPT !.sent = IF sent THEN h.held ELSE @, !.held = 0] ELSE h

\* part_002:805, 1160: the main goroutine receives from keyEventChan
HistReceived(h) ==
    IF h.on THEN [h EXCEPT !.taken = Append(@, h.sent), !.sent = 0] ELSE h

\* part_002:897, 1051, 1118: the main goroutine reads the terminal itself
HistReadKey(h) ==
    IF h.on THEN [h EXCEPT !.read = @ + 1, !.taken = Append(@, h.read + 1)] ELSE h

\* part_002:891, 1045, 1111: a dialog page is painted
HistShown(h) == IF h.on THEN [h EXCEPT !.shown = h.arrived] ELSE h

\* no Application in use
AppIdle ==
    /\ hist = NoHist
    /\ app = NewApp(FALSE)
    /\ pc = [main |-> "off", sig |-> "off", poller |-> "off"]
    /\ loc = NoLoc
    /\ chan = <<>>
    /\ tty = [stdin |-> <<>>, sig |-> FALSE]
    /\ kiMu = "none"
    /\ proc = "off"
    /\ out = Quiet

----------------------------------------------------------------------------
(* SpecKbd: one client, any order of calls *)

InitKbd ==
    /\ origTermios \in InitialTermios
    /\ w = [termios |-> origTermios, cursor |-> TRUE, sys |-> ZeroSys]
    /\ ki = NilKi
    /\ ret = NoRet
    /\ FbIdle
    /\ ConcIdle
    /\ AppIdle

Called(op, in, r) ==
    /\ ki' = r.ki
    /\ w' = r.w
    /\ ret' = [n |-> ret.n + 1, op |-> op, in |-> in, pre |-> ki, err |-> r.err]
    /\ UNCHANGED origTermios
    /\ UNCHANGED fbVars
    /\ UNCHANGED concVars
    /\ UNCHANGED appVars

KbdOpen ==
    /\ ret.n = 0
    /\ \E stdinOk, ttyOk, getOk, setOk, hideOk \in BOOLEAN :
         Called("NewKeyboardInput", <<stdinOk, ttyOk, getOk, setOk, hideOk>>,
                NewKeyboardInput(w, stdinOk, ttyOk, getOk, setOk, hideOk))

KbdReadKey ==
    /\ ki.exists /\ ret.n < MaxCalls
    /\ \E readOk \in BOOLEAN : Called("ReadKey", <<readOk>>, ReadKey(ki, w, readOk))

KbdRestoreTerminal ==
    /\ ki.exists /\ ret.n < MaxCalls
    /\ \E showOk, setOk \in BOOLEAN :
         Called("RestoreTerminal", <<showOk, setOk>>, RestoreTerminal(ki, w, showOk, setOk))

KbdClose ==
    /\ ki.exists /\ ret.n < MaxCalls
    /\ \E showOk, setOk, devOk, ttyOk \in BOOLEAN :
         Called("Close", <<showOk, setOk, devOk, ttyOk>>,
                Close(ki, w, showOk, setOk, devOk, ttyOk))

NextKbd == KbdOpen \/ KbdReadKey \/ KbdRestoreTerminal \/ KbdClose

SpecKbd == InitKbd /\ [][NextKbd]_vars

----------------------------------------------------------------------------
(* Claims about the KeyboardInput API, checked under SpecKbd *)

\* a RestoreTerminal or Close call is made in this step
RestoreOrCloseCalled == ret'.n # ret.n /\ ret'.op \in {"RestoreTerminal", "Close"}

CloseCalled == ret'.n # ret.n /\ ret'.op = "Close"

\* C3: the attribute snapshot is captured once, at open, and never modified
\* afterwards; once a restore has succeeded (RestoreTerminal or Close) the
\* terminal attributes equal the attributes the terminal had before raw mode,
\* whatever key reads happened in between.
C3_SnapshotRoundTrip ==
    /\ [](ki.exists => ki.oldTermios = origTermios /\ w.sys.tcgets = 1)
    /\ [](ki.exists /\ ki.restored => w.termios = origTermios)
    /\ [][ki.exists => ki'.oldTermios = ki.oldTermios]_vars

\* raw mode changed the attributes, a key was read, and a restore succeeded
C3_Witness ==
    /\ ki.exists /\ ki.restored
    /\ ret.op \in {"RestoreTerminal", "Close"} /\ ~ret.pre.restored
    /\ w.sys.reads > 0
    /\ RawTermios(origTermios) # origTermios
    /\ w.termios = origTermios

\* C4 (as amended): once one restore has succeeded, a further RestoreTerminal
\* or Close call changes no terminal attribute, writes no cursor escape
\* sequence and reports no restore error, so the snapshot is reapplied at most
\* once; RestoreTerminal then returns no error at all, while Close may still
\* return the error of closing a stream.
C4_RestoreOnce ==
    /\ [](w.sys.restoreApplied <= 1)
    /\ [][RestoreOrCloseCalled /\ ki.restored =>
            /\ w'.termios = w.termios
            /\ w'.cursor = w.cursor
            /\ w'.sys.showWrites = w.sys.showWrites
            /\ w'.sys.restoreApplied = w.sys.restoreApplied
            /\ "restore" \notin ret'.err
            /\ (ret'.op = "RestoreTerminal" => ret'.err = {})]_vars

\* C4 as stated: after a successful restore every further RestoreTerminal or
\* Close call returns no error.
C4_Original ==
    [][RestoreOrCloseCalled /\ ki.restored =>
            /\ w'.termios = w.termios
            /\ w'.sys.showWrites = w.sys.showWrites
            /\ ret'.err = {}]_vars

\* a Close or RestoreTerminal call made after an earlier successful restore
C4_Witness ==
    /\ ret.op \in {"RestoreTerminal", "Close"}
    /\ ret.pre.restored
    /\ w.sys.restoreApplied = 1
    /\ w.sys.showWrites >= 1

\* the sub-errors of a Close call on an open handle, from what failed
CloseFailures(k, in) ==
    (IF ~k.restored /\ ~in[2] THEN {"restore"} ELSE {})
    \cup (IF ~in[3] THEN {"device"} ELSE {})
    \cup (IF k.ttyDevice = "tty" /\ ~in[4] THEN {"tty"} ELSE {})

\* what every Close call does, but for the closing of the control stream
CloseContract(ttyCloses) ==
    IF ki.closed
    THEN ret'.err = {} /\ ki' = ki /\ w' = w
    ELSE /\ ki'.closed
         /\ ki'.device = "nil"
         /\ ki'.restored = (ki.restored \/ ret'.in[2])
         /\ (~ki.restored => w'.sys.showWrites = w.sys.showWrites + 1)
         /\ (~ki.restored /\ ret'.in[2] => w'.termios = ki.oldTermios)
         /\ w'.sys.stdinCloses = w.sys.stdinCloses + 1
         /\ w'.sys.ttyCloses = w.sys.ttyCloses + ttyCloses
         /\ ret'.err = CloseFailures(ki, ret'.in)

\* C5 (as amended): Close restores the terminal if it is not restored yet,
\* then closes the input stream and, unless the control stream is the
\* standard-output fallback, the control stream; a failing step skips no later
\* step, the returned error is exactly the set of the failed steps, the handle
\* ends closed, and a second Close returns no error and does nothing.
C5_CloseAggregates ==
    [][CloseCalled => CloseContract(IF ki.ttyDevice = "tty" THEN 1 ELSE 0)]_vars

\* C5 as stated: Close always closes the control stream too.
C5_Original ==
    [][CloseCalled => CloseContract(IF ki.closed THEN 0 ELSE 1)]_vars

\* a first Close in which the restore and both stream closes failed
C5_Witness ==
    /\ ret.op = "Close" /\ ~ret.pre.closed
    /\ ret.err = {"restore", "device", "tty"}
    /\ ki.closed /\ ki.device = "nil" /\ ki.ttyDevice = "nil"

----------------------------------------------------------------------------
(* SpecFB: one client of an opened FrameBuffer, any order of calls *)

InitFB ==
    /\ \E g \in Geometries : fb = OpenFrameBuffer(g) /\ fbw = MappedDevice(g)
    /\ fbret = NoFbRet
    /\ KbdIdle
    /\ ConcIdle
    /\ AppIdle

FbCalled(op, args, f, world, err) ==
    /\ fbret.n < MaxFbCalls
    /\ fb' = f
    /\ fbw' = world
    /\ fbret' = [n |-> fbret.n + 1, op |-> op, args |-> args, err |-> err]
    /\ UNCHANGED kbdVars
    /\ UNCHANGED concVars
    /\ UNCHANGED appVars

FbSetPixel ==
    \E x \in -1..2, y \in -1..2, c \in Colours :
        FbCalled("SetPixel", <<x, y, c>>, fb, SetPixel(fb, fbw, x, y, c), {})

FbDrawImage ==
    \E img \in Images, x \in -1..1, y \in -1..1 :
        FbCalled("DrawImage", <<img, x, y>>, fb, DrawImage(fb, fbw, img, x, y), {})

FbClear == FbCalled("Clear", <<>>, fb, Clear(fb, fbw), {})

FbClose ==
    \E munmapOk, closeOk \in BOOLEAN :
        LET r == FrameBufferClose(fb, fbw, munmapOk, closeOk)
        IN FbCalled("Close", <<munmapOk, closeOk>>, r.fb, r.fbw, r.err)

NextFB == FbSetPixel \/ FbDrawImage \/ FbClear \/ FbClose

SpecFB == InitFB /\ [][NextFB]_vars

----------------------------------------------------------------------------
(* Claims about the FrameBuffer API, checked under SpecFB *)

SetPixelCalled == fbret'.n # fbret.n /\ fbret'.op = "SetPixel"

DrawImageCalled == fbret'.n # fbret.n /\ fbret'.op = "DrawImage"

InBounds(f, x, y) == x >= 0 /\ x < f.width /\ y >= 0 /\ y < f.height

\* the byte offset the spec gives pixel (x, y), and the bytes of that pixel
PixelOffset(f, x, y) == y * f.lineLength + x * (f.bpp \div 8)

PixelBytes(f, x, y) == PixelOffset(f, x, y) .. (PixelOffset(f, x, y) + (f.bpp \div 8) - 1)

\* the pixel lies inside the mapped region
Fits(f, x, y) == PixelOffset(f, x, y) + (f.bpp \div 8) <= f.fbData.len

\* the channels a reader decodes from the bytes at offset off
Readback(mem, off, bpp) ==
    IF bpp = 16
    THEN LET pixel == mem[off] + 256 * mem[off + 1]
         IN [r |-> pixel \div 2048, g |-> (pixel \div 32) % 64, b |-> pixel % 32]
    ELSE [r |-> mem[off + 2], g |-> mem[off + 1], b |-> mem[off]]

\* a colour quantised to the channel widths of a depth
Quantised(c, bpp) ==
    IF bpp = 16 THEN [r |-> c.r \div 8, g |-> c.g \div 4, b |-> c.b \div 8]
    ELSE [r |-> c.r, g |-> c.g, b |-> c.b]

\* C7: SetPixel outside the screen or on a closed framebuffer changes no
\* byte, and no SetPixel or DrawImage ever stores outside [0, mapped length)
\* or faults, also when an in-bounds pixel lies beyond the mapped length.
C7_NoOutOfRangeWrite ==
    /\ [](~fbw.fault)
    /\ [][SetPixelCalled /\ (fb.closed \/ ~InBounds(fb, fbret'.args[1], fbret'.args[2]))
            => fbw'.mem = fbw.mem]_vars

\* an in-bounds SetPixel whose bytes reach past the mapped length was
\* dropped without a fault
C7_Witness ==
    /\ fbret.op = "SetPixel"
    /\ ~fb.closed
    /\ InBounds(fb, fbret.args[1], fbret.args[2])
    /\ ~Fits(fb, fbret.args[1], fbret.args[2])
    /\ ~fbw.fault

\* what SetPixel(x, y, c) leaves in memory when it writes the pixel
PixelWritten(x, y, c) ==
    /\ PixelBytes(fb, x, y) \subseteq DOMAIN fbw'.mem
    /\ Readback(fbw'.mem, PixelOffset(fb, x, y), fb.bpp) = Quantised(c, fb.bpp)
    /\ \A i \in DOMAIN fbw.mem \ PixelBytes(fb, x, y) : fbw'.mem[i] = fbw.mem[i]

SupportedWrite ==
    /\ SetPixelCalled
    /\ ~fb.closed
    /\ fb.bpp \in {16, 24, 32}
    /\ InBounds(fb, fbret'.args[1], fbret'.args[2])

\* C8 (as amended): for every supported depth and every in-bounds (x, y)
\* whose bytes lie inside the mapped region, SetPixel stores the pixel at
\* y*rowStride + x*bytesPerPixel, reading it back yields the colour quantised
\* to the depth's channel widths, and no other byte changes; an in-bounds
\* pixel that reaches past the mapped length is not written.
C8_SetPixelReadback ==
    [][SupportedWrite =>
         IF Fits(fb, fbret'.args[1], fbret'.args[2])
         THEN PixelWritten(fbret'.args[1], fbret'.args[2], fbret'.args[3])
         ELSE fbw'.mem = fbw.mem]_vars

\* C8 as stated: every in-bounds pixel is written.
C8_Original ==
    [][SupportedWrite => PixelWritten(fbret'.args[1], fbret'.args[2], fbret'.args[3])]_vars

\* a 16-bit write of a colour that loses bits, made after an earlier call
C8_Witness ==
    /\ fbret.op = "SetPixel" /\ fbret.n = 2
    /\ ~fb.closed /\ fb.bpp = 16
    /\ fbret.args[1] = 1 /\ fbret.args[2] = 1 /\ fbret.args[3].r = 135
    /\ Fits(fb, 1, 1)
    /\ Readback(fbw.mem, PixelOffset(fb, 1, 1), 16) = [r |-> 16, g |-> 16, b |-> 1]

\* C9 as stated: at 32 bits per pixel every pixel write stores an alpha byte
\* that is fully opaque (255), whatever the alpha of the colour.
C9_Original ==
    [][SupportedWrite /\ fb.bpp = 32 /\ Fits(fb, fbret'.args[1], fbret'.args[2])
         => fbw'.mem[PixelOffset(fb, fbret'.args[1], fbret'.args[2]) + 3] = 255]_vars

\* the device pixel whose bytes include byte i, if any
PixelsAt(f, i) ==
    { p \in (0..(f.width - 1)) \X (0..(f.height - 1)) : i \in PixelBytes(f, p[1], p[2]) }

\* byte i after DrawImage(img, x, y), stated pixel by pixel through SetPixel
BlitByte(img, x, y, i) ==
    LET inside == { p \in PixelsAt(fb, i) :
                      /\ p[1] >= x /\ p[1] < x + img.dx
                      /\ p[2] >= y /\ p[2] < y + img.dy }
    IN IF inside = {} THEN fbw.mem[i]
       ELSE LET p == CHOOSE q \in inside : TRUE
            IN SetPixel(fb, fbw, p[1], p[2],
                        At(img, img.minX + p[1] - x, img.minY + p[2] - y)).mem[i]

\* C10: DrawImage(img, x, y) leaves every device pixel inside the image
\* rectangle clipped to the screen as SetPixel(px, py, img.At(min.X+px-x,
\* min.Y+py-y)) would (same encoding, no blending) and every other byte
\* unchanged, also for negative x or y and images larger than the screen.
C10_DrawImageAsSetPixel ==
    [][DrawImageCalled =>
         /\ DOMAIN fbw'.mem = DOMAIN fbw.mem
         /\ \A i \in DOMAIN fbw.mem :
               fbw'.mem[i] = BlitByte(fbret'.args[1], fbret'.args[2], fbret'.args[3], i)
         /\ fbw'.fault = fbw.fault]_vars

\* an image larger than the screen drawn at a negative position over
\* earlier content
C10_Witness ==
    /\ fbret.op = "DrawImage" /\ fbret.n = 2
    /\ fbret.args[1].dx > fb.width
    /\ fbret.args[2] < 0 /\ fbret.args[3] < 0
    /\ ~fb.closed /\ fb.bpp = 24
    /\ Readback(fbw.mem, PixelOffset(fb, 0, 0), 24) = [r |-> 135, g |-> 67, b |-> 9]
    /\ Readback(fbw.mem, PixelOffset(fb, 1, 1), 24) = [r |-> 255, g |-> 255, b |-> 255]

\* C11: after Clear() on an open framebuffer with no subsequent write, every
\* byte of the mapped buffer is zero, whatever calls preceded the Clear.
C11_ClearZeroes ==
    fbret.op = "Clear" /\ ~fb.closed => \A i \in DOMAIN fbw.mem : fbw.mem[i] = 0

\* Clear was the last of several calls on an open device with row padding
C11_Witness ==
    /\ fbret.op = "Clear" /\ fbret.n = MaxFbCalls /\ ~fb.closed
    /\ fb.lineLength > fb.width * (fb.bpp \div 8)
    /\ \A i \in DOMAIN fbw.mem : fbw.mem[i] = 0

----------------------------------------------------------------------------
(* SpecFBNew: NewFrameBuffer on a device, then calls on the handle it       *)
(* returned                                                                 *)

InitFBNew ==
    /\ FbIdle
    /\ KbdIdle
    /\ ConcIdle
    /\ AppIdle

FbNew ==
    /\ fbret.n = 0
    /\ \E g \in OpenDevices, openOk, fixOk, varOk, mmapOk \in BOOLEAN :
         LET r == NewFrameBuffer(fbw, g, openOk, fixOk, varOk, mmapOk)
         IN FbCalled("NewFrameBuffer", <<g, openOk, fixOk, varOk, mmapOk>>,
                     r.fb, r.fbw, r.err)

\* the caller holds a handle
HasHandle == fb # NilFb

NextFBNew ==
    \/ FbNew
    \/ HasHandle /\ FbSetPixel
    \/ HasHandle /\ FbDrawImage
    \/ HasHandle /\ FbClear
    \/ HasHandle /\ FbClose

SpecFBNew == InitFBNew /\ [][NextFBNew]_vars

\* the state is the one NewFrameBuffer returned in
NewReturned == fbret.op = "NewFrameBuffer"

\* C13: NewFrameBuffer fails cleanly.  When the device cannot be opened it
\* returns an error and no handle and attempts no ioctl and no mapping; when
\* a screen-info ioctl fails, or the reported length is 0 or above 1 GiB, it
\* returns an error without mapping; on every failure after a successful
\* open the descriptor is closed and no mapping is left in place.
C13_NewFailsCleanly ==
    NewReturned =>
        LET g      == fbret.args[1]
            openOk == fbret.args[2]
            infoOk == fbret.args[3] /\ fbret.args[4]
            sizeOk == g.smemLen > 0 /\ g.smemLen <= MaxSmemLen
        IN /\ ~openOk => /\ fbret.err # {} /\ fb = NilFb
                         /\ fbw = ClosedDevice
           /\ openOk /\ (~infoOk \/ ~sizeOk) =>
                         /\ fbret.err # {} /\ fb = NilFb
                         /\ fbw.mmaps = 0 /\ ~fbw.mapped
           /\ openOk /\ fbret.err # {} =>
                         /\ fb = NilFb
                         /\ fbw.devOpens = 1 /\ fbw.devCloses = 1
                         /\ ~fbw.mapped
           /\ fbret.err = {} => /\ fb = OpenFrameBuffer(g) /\ fbw = MappedDevice(g)

\* the driver reported more than 1 GiB: the open failed after both ioctls,
\* nothing was mapped and the descriptor was closed
C13_Witness ==
    /\ NewReturned /\ fbret.args[2] /\ fbret.args[3] /\ fbret.args[4]
    /\ fbret.args[1].smemLen > MaxSmemLen
    /\ fbret.err = {"size"} /\ fb = NilFb
    /\ fbw.ioctls = 2 /\ fbw.mmaps = 0 /\ fbw.devCloses = 1 /\ ~fbw.mapped

----------------------------------------------------------------------------
(* SpecFBConc: goroutines calling SetPixel, DrawImage, Clear and Close on   *)
(* one FrameBuffer at the same time.  A call is a sequence of steps: take   *)
(* fb.mu, run the checks, store, release (the deferred unlock).             *)

Threads == 1..MaxThreads

IdleThread == [pc |-> "idle", op |-> "none", args |-> <<>>, todo |-> <<>>, err |-> {}]

\* the devices of the concurrent runs: one per supported depth, one of them
\* with a mapping shorter than its rows
ConcGeometries == { g \in Geometries : g.bpp # 8 /\ g.smemLen # 8 /\ g.smemLen # 12 }

InitFBConc ==
    /\ \E g \in ConcGeometries : fb = OpenFrameBuffer(g) /\ fbw = MappedDevice(g)
    /\ fbret = NoFbRet
    /\ fbMu = FreeMu
    /\ thr = [t \in Threads |-> IdleThread]
    /\ KbdIdle
    /\ AppIdle

\* a defect: the exclusive lock does not wait for the readers
CanLock_IgnoreReaders(mu) == mu.writer = 0

\* sync.RWMutex.Lock (framebuffer.go:197, 352): no reader and no writer
CanLock(mu) == mu.writer = 0 /\ mu.readers = {}

\* sync.RWMutex.RLock (framebuffer.go:214, 263): no writer
CanRLock(mu) == mu.writer = 0

\* a goroutine calls one of the four methods
ConcBegin(t) ==
    /\ thr[t].pc = "idle"
    /\ \/ \E x \in 0..1, y \in 1..1 :
            thr' = [thr EXCEPT ![t] = [@ EXCEPT !.pc = "lock", !.op = "SetPixel",
                                                !.args = <<x, y, ColourSeq[2]>>]]
       \/ \E img \in Images, x \in -1..0 :
            thr' = [thr EXCEPT ![t] = [@ EXCEPT !.pc = "lock", !.op = "DrawImage",
                                                !.args = <<img, x, 0>>]]
       \/ thr' = [thr EXCEPT ![t] = [@ EXCEPT !.pc = "lock", !.op = "Clear"]]
       \/ \E munmapOk, closeOk \in BOOLEAN :
            thr' = [thr EXCEPT ![t] = [@ EXCEPT !.pc = "lock", !.op = "Close",
                                                !.args = <<munmapOk, closeOk>>]]
    /\ UNCHANGED <<fbMu, fbVars, kbdVars, appVars>>

\* fb.mu.RLock() in SetPixel and DrawImage
ConcRLock(t) ==
    /\ thr[t].pc = "lock" /\ thr[t].op \in {"SetPixel", "DrawImage"}
    /\ CanRLock(fbMu)
    /\ fbMu' = [fbMu EXCEPT !.readers = @ \cup {t}]
    /\ thr' = [thr EXCEPT ![t].pc = "check"]
    /\ UNCHANGED <<fbVars, kbdVars, appVars>>

\* fb.mu.Lock() in Clear and Close
ConcLock(t) ==
    /\ thr[t].pc = "lock" /\ thr[t].op \in {"Clear", "Close"}
    /\ CanLock(fbMu)
    /\ fbMu' = [fbMu EXCEPT !.writer = t]
    /\ thr' = [thr EXCEPT ![t].pc = "check"]
    /\ UNCHANGED <<fbVars, kbdVars, appVars>>

\* SetPixel, framebuffer.go:218-240
ConcSetPixelCheck(t) ==
    /\ thr[t].pc = "check" /\ thr[t].op = "SetPixel"
    /\ thr' = [thr EXCEPT ![t].pc = IF SetPixelChecks(fb, thr[t].args[1], thr[t].args[2])
                                    THEN "write" ELSE "unlock"]
    /\ UNCHANGED <<fbMu, fbVars, kbdVars, appVars>>

\* SetPixel, framebuffer.go:243-257
ConcSetPixelWrite(t) ==
    /\ thr[t].pc = "write"
    /\ fbw' = SetPixelStores(fb, fbw, thr[t].args[1], thr[t].args[2], thr[t].args[3])
    /\ thr' = [thr EXCEPT ![t].pc = "unlock"]
    /\ UNCHANGED <<fbMu, fb, fbret, kbdVars, appVars>>

\* DrawImage, framebuffer.go:266-276
ConcDrawCheck(t) ==
    /\ thr[t].pc = "check" /\ thr[t].op = "DrawImage"
    /\ thr' = [thr EXCEPT ![t] =
                 IF fb.closed \/ fb.fbData.nil THEN [@ EXCEPT !.pc = "unlock"]
                 ELSE [@ EXCEPT !.pc = "draw",
                                !.todo = ClippedPixels(fb, thr[t].args[1], thr[t].args[2],
                                                      thr[t].args[3])]]
    /\ UNCHANGED <<fbMu, fbVars, kbdVars, appVars>>

\* DrawImage, framebuffer.go:279-290: one pixel of the loop
ConcDrawPixel(t) ==
    /\ thr[t].pc = "draw"
    /\ IF thr[t].todo = <<>>
       THEN /\ thr' = [thr EXCEPT ![t].pc = "unlock"]
            /\ UNCHANGED fbw
       ELSE /\ fbw' = DrawPixel(fb, fbw, thr[t].args[1], thr[t].args[2], thr[t].args[3],
                                Head(thr[t].todo))
            /\ thr' = [thr EXCEPT ![t].todo = Tail(@)]
    /\ UNCHANGED <<fbMu, fb, fbret, kbdVars, appVars>>

\* Clear, framebuffer.go:200-207
ConcClear(t) ==
    /\ thr[t].pc = "check" /\ thr[t].op = "Clear"
    /\ fbw' = Clear(fb, fbw)
    /\ thr' = [thr EXCEPT ![t].pc = "unlock"]
    /\ UNCHANGED <<fbMu, fb, fbret, kbdVars, appVars>>

\* Close, framebuffer.go:355-365: the closed check and the munmap call
ConcCloseMunmap(t) ==
    /\ thr[t].pc = "check" /\ thr[t].op = "Close"
    /\ IF fb.closed
       THEN /\ thr' = [thr EXCEPT ![t].pc = "unlock"]
            /\ UNCHANGED fbw
       ELSE /\ fbw' = IF ~fb.fbData.nil THEN Munmap(fbw, thr[t].args[1]) ELSE fbw
            /\ thr' = [thr EXCEPT ![t] =
                         [@ EXCEPT !.pc = "unmapped",
                                   !.err = IF ~fb.fbData.nil /\ ~thr[t].args[1]
                                           THEN {"munmap"} ELSE {}]]
    /\ UNCHANGED <<fbMu, fb, fbret, kbdVars, appVars>>

\* Close, framebuffer.go:366-382
ConcCloseRest(t) ==
    /\ thr[t].pc = "unmapped"
    /\ LET r == CloseAfterMunmap(fb, fbw, thr[t].err, thr[t].args[2])
       IN /\ fb' = r.fb
          /\ fbw' = r.fbw
          /\ thr' = [thr EXCEPT ![t] = [@ EXCEPT !.pc = "unlock", !.err = r.err]]
    /\ UNCHANGED <<fbMu, fbret, kbdVars, appVars>>

\* the deferred fb.mu.RUnlock() / fb.mu.Unlock()
ConcUnlock(t) ==
    /\ thr[t].pc = "unlock"
    /\ fbMu' = [readers |-> fbMu.readers \ {t},
                writer |-> IF fbMu.writer = t THEN 0 ELSE fbMu.writer]
    /\ thr' = [thr EXCEPT ![t].pc = "done"]
    /\ UNCHANGED <<fbVars, kbdVars, appVars>>

NextFBConc ==
    \E t \in Threads :
        \/ ConcBegin(t)
        \/ ConcRLock(t)
        \/ ConcLock(t)
        \/ ConcSetPixelCheck(t)
        \/ ConcSetPixelWrite(t)
        \/ ConcDrawCheck(t)
        \/ ConcDrawPixel(t)
        \/ ConcClear(t)
        \/ ConcCloseMunmap(t)
        \/ ConcCloseRest(t)
        \/ ConcUnlock(t)

SpecFBConc == InitFBConc /\ [][NextFBConc]_vars

\* C6: in no interleaving of Close with concurrent SetPixel, DrawImage or
\* Clear does a write touch the region after it is unmapped: while a writer
\* is past its checks and before its unlock the region stays mapped and the
\* handle open, and no store ever faults.
C6_NoWriteAfterUnmap ==
    /\ ~fbw.fault
    /\ \A t \in DOMAIN thr :
          thr[t].pc \in {"write", "draw"} =>
              fbw.mapped /\ ~fb.closed /\ ~fb.fbData.nil

\* a writer holds the read lock after Close has unmapped the region: it has
\* observed the closed state and stores nothing
C6_Witness ==
    /\ fb.closed /\ ~fbw.mapped
    /\ \E t \in DOMAIN thr :
          /\ thr[t].op \in {"SetPixel", "DrawImage"}
          /\ thr[t].pc = "unlock"
          /\ t \in fbMu.readers

----------------------------------------------------------------------------
(* Spec: the application life cycle (package main, part_002:520-1271).      *)
(* Three goroutines: main, the signal handler started by                    *)
(* setupSignalHandler and the keyboard listener started by Run.  The user   *)
(* types keys and sends signals.  A paint is reduced to its result; of the  *)
(* dialogs, the information pages and the reboot/shutdown confirmations are *)
(* modelled.  The count of reads in the system-call log is kept by SpecKbd  *)
(* only.                                                                    *)

\* Enter, '1', '4', 'y', 'q', Ctrl+C, Ctrl+Z, Ctrl+\, Ctrl+D
AppKeys == {13, 49, 52, 121, 113, 3, 26, 28, 4}

\* the display the application runs on
AppGeometry == CHOOSE g \in Geometries : g.bpp = 32 /\ g.smemLen = 16

\* a defect: the exit-disable flag is not consulted
handleControlKey_IgnoreFlag(a, key) == key \in {3, 26, 28, 4}

\* a defect: only Ctrl+C is a control key
handleControlKey_OnlyCtrlC(a, key) == key = 3 /\ ~a.disableCtrlC

\* part_002:1197-1237  the key cancels the context and ends the current page
handleControlKey(a, key) == key \in {3, 26, 28, 4} /\ ~a.disableCtrlC

\* part_002:1197-1237 and 824-851  the log entry about a control key
ControlKeyLog(a, key) ==
    IF key \in {3, 26, 28, 4}
    THEN <<IF a.disableCtrlC THEN "ignored" ELSE "exiting", "key", key>>
    ELSE <<>>

\* part_002:801-803, 820-822  the log entry about a failed paint of the main
\* page
PaintLog(site, err) == IF err THEN <<"error", site, 0>> ELSE <<>>

\* part_002:711-715  the log entry about a signal
SignalLog(a) == <<IF a.disableCtrlC THEN "ignored" ELSE "exiting", "signal", 0>>

\* part_002:869-884  the page a menu choice opens
DialogOf(choice) ==
    CASE choice \in {1, 2} -> "info"
      [] choice = 3 -> "nettest"
      [] choice = 4 -> "reboot"
      [] choice = 5 -> "shutdown"
      [] OTHER -> "msg"

\* a defect: a page that has returned ends the configuration menu
DialogReturn_ToMain(l, err) ==
    IF err /\ ~l.nested
    THEN [pc |-> "dlgRender", loc |-> [l EXCEPT !.dlg = "msg", !.nested = TRUE]]
    ELSE [pc |-> "menuDefer", loc |-> [l EXCEPT !.dlg = "none", !.nested = FALSE]]

\* part_002:1178-1182  a page has returned to enterConfigMenu: an error opens
\* the "operation failed" message page, whose own result is dropped
DialogReturn(l, err) ==
    IF err /\ ~l.nested
    THEN [pc |-> "dlgRender", loc |-> [l EXCEPT !.dlg = "msg", !.nested = TRUE]]
    ELSE [pc |-> "menu", loc |-> [l EXCEPT !.dlg = "none", !.nested = FALSE]]

\* a defect: the read does not look at closed
ReadKeyNonBlocking_NoClosedCheck(k, world, stdin, outcome) ==
    LET none == [w |-> world, stdin |-> stdin, key |-> 0, available |-> FALSE,
                 err |-> FALSE, why |-> "none", calls |-> <<>>]
    IN IF outcome \in {"EINTR", "selectError"}
       THEN [none EXCEPT !.err = TRUE, !.why = "select", !.calls = <<"select">>]
       ELSE IF stdin = <<>> THEN [none EXCEPT !.calls = <<"select">>]
       ELSE IF outcome = "readError"
            THEN [none EXCEPT !.err = TRUE, !.why = "read",
                              !.calls = <<"select", "read">>]
       ELSE IF outcome = "eof" THEN [none EXCEPT !.calls = <<"select", "read">>]
       ELSE [none EXCEPT !.stdin = Tail(stdin), !.key = Head(stdin),
                         !.available = TRUE, !.calls = <<"select", "read">>]

\* renderer.go:448-487  the read that does not wait.  outcome: what select
\* and read do this time; calls: the system calls made on the descriptor; why:
\* the error returned.  Every error of select is returned as an error.
ReadKeyNonBlocking(k, world, stdin, outcome) ==
    LET none == [w |-> world, stdin |-> stdin, key |-> 0, available |-> FALSE,
                 err |-> FALSE, why |-> "none", calls |-> <<>>]
    IN IF k.closed \/ k.device = "nil"
       THEN [none EXCEPT !.err = TRUE, !.why = "closed"]
       ELSE IF outcome \in {"EINTR", "selectError"}
       THEN [none EXCEPT !.err = TRUE, !.why = "select", !.calls = <<"select">>]
       ELSE IF stdin = <<>> THEN [none EXCEPT !.calls = <<"select">>]
       ELSE IF outcome = "readError"
            THEN [none EXCEPT !.err = TRUE, !.why = "read",
                              !.calls = <<"select", "read">>]
       ELSE IF outcome = "eof" THEN [none EXCEPT !.calls = <<"select", "read">>]
       ELSE [none EXCEPT !.stdin = Tail(stdin), !.key = Head(stdin),
                         !.available = TRUE, !.calls = <<"select", "read">>]

\* renderer.go:489-531  outcome: what select and read do this time; calls: the
\* system calls made on the descriptor; why: the error returned
ReadKeyNonBlockingWithTimeout(k, world, stdin, outcome) ==
    LET none == [w |-> world, stdin |-> stdin, key |-> 0, available |-> FALSE,
                 err |-> FALSE, why |-> "none", calls |-> <<>>]
    IN IF k.closed \/ k.device = "nil"
       THEN [none EXCEPT !.err = TRUE, !.why = "closed"]
       ELSE IF outcome = "EINTR" THEN [none EXCEPT !.calls = <<"select">>]
       ELSE IF outcome = "selectError"
            THEN [none EXCEPT !.err = TRUE, !.why = "select", !.calls = <<"select">>]
       ELSE IF stdin = <<>> THEN [none EXCEPT !.calls = <<"select">>]
       ELSE IF outcome = "readError"
            THEN [none EXCEPT !.err = TRUE, !.why = "read",
                              !.calls = <<"select", "read">>]
       ELSE IF outcome = "eof" THEN [none EXCEPT !.calls = <<"select", "read">>]
       ELSE [none EXCEPT !.stdin = Tail(stdin), !.key = Head(stdin),
                         !.available = TRUE, !.calls = <<"select", "read">>]

\* renderer.go:537-565  env: for each turn of the loop, the time since the
\* start when the timeout is checked, and what select and read do; when env is
\* used up the timeout has passed.  keys = {} accepts any key.  calls: the
\* system calls made so far.
RECURSIVE WaitForKeyWithTimeout(_, _, _, _, _, _, _)
WaitForKeyWithTimeout(k, world, stdin, timeout, env, keys, calls) ==
    LET fail(why, c) == [w |-> world, stdin |-> stdin, key |-> 0, available |-> FALSE,
                         err |-> TRUE, why |-> why, calls |-> c]
    IN IF env = <<>> \/ Head(env).since > timeout THEN fail("timeout", calls)
       ELSE LET r == ReadKeyNonBlocking(k, world, stdin, Head(env).outcome)
            IN IF r.err THEN fail(r.why, calls \o r.calls)
               ELSE IF r.available /\ (keys = {} \/ r.key \in keys)
                    THEN [r EXCEPT !.calls = calls \o r.calls]
               ELSE WaitForKeyWithTimeout(k, r.w, r.stdin, timeout, Tail(env), keys,
                                          calls \o r.calls)

\* renderer.go:533-535, 567-570  WaitForKey and WaitForEnter wait 30 s
WaitForKey(k, world, stdin, env, keys) ==
    WaitForKeyWithTimeout(k, world, stdin, 30, env, keys, <<>>)

WaitForEnter(k, world, stdin, env) == WaitForKey(k, world, stdin, env, {10, 13})

\* renderer.go:572-585  the wait runs in a goroutine of its own; with the
\* context cancelled the caller may get ctx.Err() instead of its result
WaitForEnterWithContext(k, world, stdin, env, ctxDone, viaCtx) ==
    LET r == WaitForEnter(k, world, stdin, env)
    IN IF ctxDone /\ viaCtx
       THEN [r EXCEPT !.key = 0, !.available = FALSE, !.err = TRUE, !.why = "context"]
       ELSE r

\* renderer.go:604-619  the keys of the menu and the choice they stand for
MenuChoice == [key \in (49..53) \cup {113, 81, 10, 13} |->
                 IF key \in 49..53 THEN key - 48
                 ELSE IF key \in {113, 81} THEN -1 ELSE 0]

\* renderer.go:591-626  as WaitForKeyWithTimeout; key is the choice returned
RECURSIVE WaitForMenuChoiceWithTimeout(_, _, _, _, _, _)
WaitForMenuChoiceWithTimeout(k, world, stdin, timeout, env, calls) ==
    LET fail(why, c) == [w |-> world, stdin |-> stdin, key |-> 0, available |-> FALSE,
                         err |-> TRUE, why |-> why, calls |-> c]
    IN IF env = <<>> \/ Head(env).since > timeout THEN fail("timeout", calls)
       ELSE LET r == ReadKeyNonBlocking(k, world, stdin, Head(env).outcome)
            IN IF r.err THEN fail(r.why, calls \o r.calls)
               ELSE IF r.available /\ r.key \in DOMAIN MenuChoice
                    THEN [r EXCEPT !.key = MenuChoice[r.key], !.calls = calls \o r.calls]
               ELSE WaitForMenuChoiceWithTimeout(k, r.w, r.stdin, timeout, Tail(env),
                                                 calls \o r.calls)

Alive == proc = "running"

\* the terminal the application starts on: a cooked terminal
AppTermios == { t \in InitialTermios : t.vmin = 4 }

InitProgram ==
    /\ origTermios \in AppTermios
    /\ w = [termios |-> origTermios, cursor |-> TRUE, sys |-> ZeroSys]
    /\ ki = NilKi
    /\ ret = NoRet
    /\ FbIdle
    /\ ConcIdle
    /\ \E disableCtrlC \in BOOLEAN : app = NewApp(disableCtrlC)
    /\ pc = [main |-> "start", sig |-> "off", poller |-> "off"]
    /\ loc = NoLoc
    /\ chan = <<>>
    /\ tty = [stdin |-> <<>>, sig |-> FALSE]
    /\ kiMu = "none"
    /\ proc = "running"
    /\ out = Quiet

InitApp == InitProgram /\ hist = NoHist

\* keys typed and not yet handled: waiting in the terminal, held by the
\* listener, or in the channel
InFlight == Len(tty.stdin) + Len(chan) + (IF loc.key # 0 THEN 1 ELSE 0)

\* the user presses a key
TypeKey ==
    /\ Alive /\ pc.main # "start"
    /\ InFlight < MaxPending
    /\ \E key \in AppKeys : tty' = [tty EXCEPT !.stdin = Append(@, key)]
    /\ UNCHANGED <<kbdVars, fbVars, concVars, hist, app, pc, loc, chan, kiMu, proc>>
    /\ out' = Quiet

\* a signal the handler is registered for arrives (part_002:703-705: the
\* channel holds one signal)
SendSignal ==
    /\ Alive /\ pc.sig # "off" /\ ~tty.sig
    /\ tty' = [tty EXCEPT !.sig = TRUE]
    /\ UNCHANGED <<kbdVars, fbVars, concVars, hist, app, pc, loc, chan, kiMu, proc>>
    /\ out' = Quiet

\* part_002:589-593 and 631-672: NewApplication; its failure is fatal
MainNewApplication ==
    /\ Alive /\ pc.main = "start"
    /\ \E fbOk, fontOk, stdinOk, ttyOk, getOk, setOk, hideOk \in BOOLEAN :
         LET r  == NewKeyboardInput(w, stdinOk, ttyOk, getOk, setOk, hideOk)
             ok == fbOk /\ fontOk /\ r.err = {}
         IN /\ fb' = IF fbOk THEN OpenFrameBuffer(AppGeometry) ELSE fb
            /\ fbw' = IF fbOk THEN MappedDevice(AppGeometry) ELSE fbw
            /\ w' = IF fbOk /\ fontOk THEN r.w ELSE w
            /\ ki' = IF ok THEN r.ki ELSE ki
            /\ app' = [app EXCEPT !.fb = IF fbOk THEN "fb" ELSE @,
                                  !.keyboard = IF ok THEN "ki" ELSE @,
                                  !.cancelled = ~ok]
            /\ pc' = [pc EXCEPT !.main = IF ok THEN "setup" ELSE "fatal"]
            /\ proc' = IF ok THEN proc ELSE "aborted"
    /\ UNCHANGED <<ret, origTermios, fbret, concVars, hist, loc, chan, tty, kiMu>>
    /\ out' = Quiet

\* part_002:604 and 702-729: the signal goroutine starts
MainSetupSignalHandler ==
    /\ Alive /\ pc.main = "setup"
    /\ pc' = [pc EXCEPT !.main = "run", !.sig = "wait"]
    /\ UNCHANGED <<kbdVars, fbVars, concVars, hist, app, loc, chan, tty, kiMu, proc>>
    /\ out' = Quiet

\* part_002:773-782: running = true, the listener goroutine starts, the
\* ticker is created
MainRun ==
    /\ Alive /\ pc.main = "run" /\ app.mu = "none"
    /\ app' = [app EXCEPT !.running = TRUE]
    /\ pc' = [pc EXCEPT !.main = "firstPaint", !.poller = "check"]
    /\ loc' = [loc EXCEPT !.ticker = "armed"]
    /\ out' = Quiet
    /\ UNCHANGED <<kbdVars, fbVars, concVars, hist, chan, tty, kiMu, proc>>

\* part_002:785-787: the first paint; its failure ends Run, whose deferred
\* call stops the ticker
MainFirstPaint ==
    /\ Alive /\ pc.main = "firstPaint"
    /\ \E infoOk, renderOk \in BOOLEAN, sysInfo \in Snapshots :
         LET r == showMainMenu(app.menuRenderer, infoOk, sysInfo, renderOk)
         IN /\ app' = [app EXCEPT !.menuRenderer = r.mr]
            /\ out' = Painted("main", r.kind, r.sysInfo)
            /\ pc' = [pc EXCEPT !.main = IF r.err THEN "cleanLock" ELSE "loop"]
            /\ loc' = [loc EXCEPT !.ticker = IF r.err THEN "stopped" ELSE @]
    /\ UNCHANGED <<kbdVars, fbVars, concVars, hist, chan, tty, kiMu, proc>>

\* part_002:793-795 and 782: the context is cancelled, Run returns and its
\* deferred call stops the ticker
MainLoopDone ==
    /\ Alive /\ pc.main = "loop" /\ app.cancelled
    /\ pc' = [pc EXCEPT !.main = "cleanLock"]
    /\ loc' = [loc EXCEPT !.ticker = "stopped"]
    /\ out' = Quiet
    /\ UNCHANGED <<kbdVars, fbVars, concVars, hist, app, chan, tty, kiMu, proc>>

\* a defect: a failed refresh ends the loop
MainLoopTick_StopOnError ==
    /\ Alive /\ pc.main = "loop" /\ loc.ticker = "armed" /\ app.mu = "none"
    /\ IF app.running
       THEN \E infoOk, renderOk \in BOOLEAN, sysInfo \in Snapshots :
              LET r == showMainMenu(InvalidateCache(app.menuRenderer), infoOk,
                                    sysInfo, renderOk)
              IN /\ app' = [app EXCEPT !.menuRenderer = r.mr]
                 /\ out' = [Painted("main", r.kind, r.sysInfo) EXCEPT
                              !.log = PaintLog("refresh", r.err)]
                 /\ pc' = [pc EXCEPT !.main = IF r.err THEN "cleanLock" ELSE @]
       ELSE /\ out' = Quiet
            /\ UNCHANGED <<app, pc>>
    /\ UNCHANGED <<kbdVars, fbVars, concVars, hist, loc, chan, tty, kiMu, proc>>

\* part_002:796-804: the tick of the ticker: while running, the cache is
\* invalidated and the main page painted; a failure is only logged
MainLoopTick ==
    /\ Alive /\ pc.main = "loop" /\ loc.ticker = "armed" /\ app.mu = "none"
    /\ IF app.running
       THEN \E infoOk, renderOk \in BOOLEAN, sysInfo \in Snapshots :
              LET r == showMainMenu(InvalidateCache(app.menuRenderer), infoOk,
                                    sysInfo, renderOk)
              IN /\ app' = [app EXCEPT !.menuRenderer = r.mr]
                 /\ out' = [Painted("main", r.kind, r.sysInfo) EXCEPT
                              !.log = PaintLog("refresh", r.err)]
       ELSE /\ out' = Quiet
            /\ UNCHANGED app
    /\ UNCHANGED <<kbdVars, fbVars, concVars, hist, pc, loc, chan, tty, kiMu, proc>>

\* part_002:805-851: a key of the main page
MainLoopKey ==
    /\ Alive /\ pc.main = "loop" /\ chan # <<>> /\ app.mu = "none"
    /\ chan' = <<>>
    /\ hist' = HistReceived(hist)
    /\ LET key == Head(chan)
       IN IF ~app.running THEN out' = Quiet /\ UNCHANGED <<app, pc>>
          ELSE IF key \in {10, 13}
               THEN /\ pc' = [pc EXCEPT !.main = "menuEnter"]
                    /\ out' = Quiet
                    /\ UNCHANGED app
          ELSE /\ app' = [app EXCEPT !.cancelled = @ \/ handleControlKey(app, key)]
               /\ out' = Logged(ControlKeyLog(app, key))
               /\ UNCHANGED pc
    /\ UNCHANGED <<kbdVars, fbVars, concVars, loc, tty, kiMu, proc>>

\* part_002:1134-1150: enterConfigMenu pauses the main page: running = false,
\* the ticker is stopped
MainEnterConfigMenu ==
    /\ Alive /\ pc.main = "menuEnter" /\ app.mu = "none"
    /\ app' = [app EXCEPT !.running = FALSE]
    /\ loc' = [loc EXCEPT !.ticker = "stopped"]
    /\ pc' = [pc EXCEPT !.main = "menu"]
    /\ out' = Quiet
    /\ UNCHANGED <<kbdVars, fbVars, concVars, hist, chan, tty, kiMu, proc>>

\* part_002:1152-1154: the menu is painted; a failure leaves the menu
MainMenuShow ==
    /\ Alive /\ pc.main = "menu"
    /\ \E renderOk \in BOOLEAN :
         LET r == RenderConfigMenu(app.menuRenderer, renderOk)
         IN /\ app' = [app EXCEPT !.menuRenderer = r.mr]
            /\ out' = Painted("config", r.kind, NoInfo)
            /\ pc' = [pc EXCEPT !.main = IF r.err THEN "menuDefer" ELSE "menuSelect"]
    /\ UNCHANGED <<kbdVars, fbVars, concVars, hist, loc, chan, tty, kiMu, proc>>

\* part_002:1160-1176: a key of the configuration menu
MainMenuKey ==
    /\ Alive /\ pc.main = "menuSelect" /\ chan # <<>>
    /\ chan' = <<>>
    /\ hist' = HistReceived(hist)
    /\ LET key == Head(chan)
       IN /\ out' = Logged(ControlKeyLog(app, key))
          /\ IF handleControlKey(app, key)
             THEN /\ app' = [app EXCEPT !.cancelled = TRUE]
                  /\ pc' = [pc EXCEPT !.main = "menuDefer"]
                  /\ UNCHANGED loc
             ELSE IF key \in 49..53
                  THEN /\ loc' = [loc EXCEPT !.dlg = DialogOf(key - 48)]
                       /\ pc' = [pc EXCEPT !.main = "dlgRender"]
                       /\ UNCHANGED app
             ELSE /\ pc' = [pc EXCEPT !.main = IF key \in {113, 81, 27}
                                               THEN "menuDefer" ELSE "menu"]
                  /\ UNCHANGED <<app, loc>>
    /\ UNCHANGED <<kbdVars, fbVars, concVars, tty, kiMu, proc>>

\* part_002:1184-1185: the context is cancelled while the menu waits
MainMenuDone ==
    /\ Alive /\ pc.main = "menuSelect" /\ app.cancelled
    /\ pc' = [pc EXCEPT !.main = "menuDefer"]
    /\ UNCHANGED <<kbdVars, fbVars, concVars, hist, app, loc, chan, tty, kiMu, proc>>
    /\ out' = Quiet

\* part_002:891-893, 1045-1047, 1111-1114: the page is painted
MainDialogRender ==
    /\ Alive /\ pc.main = "dlgRender"
    /\ \E paintOk \in BOOLEAN :
         LET d == DialogReturn(loc, TRUE)
             r == RenderMessage(app.menuRenderer, paintOk)
         IN /\ out' = Painted(loc.dlg, r.kind, NoInfo)
            /\ hist' = HistShown(hist)
            /\ IF ~r.err
               THEN pc' = [pc EXCEPT !.main = "dlgLock"] /\ UNCHANGED loc
               ELSE pc' = [pc EXCEPT !.main = d.pc] /\ loc' = d.loc
    /\ UNCHANGED <<kbdVars, fbVars, concVars, app, chan, tty, kiMu, proc>>

\* part_002:897, 1051, 1118 and renderer.go:429-436: app.keyboard.ReadKey()
\* up to the read.  A nil app.keyboard panics; the panic unwinds through the
\* deferred function of enterConfigMenu to main.
MainDialogLock ==
    /\ Alive /\ pc.main = "dlgLock"
    /\ IF app.keyboard = "nil"
       THEN /\ loc' = [loc EXCEPT !.panicking = TRUE]
            /\ pc' = [pc EXCEPT !.main = "menuDefer"]
            /\ UNCHANGED kiMu
       ELSE /\ kiMu = "none"
            /\ IF ReadKey(ki, w, TRUE).err # {}
               THEN LET d == DialogReturn(loc, TRUE)
                    IN pc' = [pc EXCEPT !.main = d.pc] /\ loc' = d.loc /\ UNCHANGED kiMu
               ELSE pc' = [pc EXCEPT !.main = "dlgRead"] /\ kiMu' = "main"
                    /\ UNCHANGED loc
    /\ UNCHANGED <<kbdVars, fbVars, concVars, hist, app, chan, tty, proc>>
    /\ out' = Quiet

\* renderer.go:438-445 and part_002:898-910, 1052-1071, 1119-1130: the
\* blocking read returns and the page handles the key
MainDialogRead ==
    /\ Alive /\ pc.main = "dlgRead"
    /\ kiMu' = "none"
    /\ \/ LET d == DialogReturn(loc, TRUE)
          IN /\ ReadKey(ki, w, FALSE).err # {}
             /\ pc' = [pc EXCEPT !.main = d.pc]
             /\ loc' = d.loc
             /\ out' = Quiet
             /\ UNCHANGED <<app, tty, hist>>
       \/ /\ tty.stdin # <<>>
          /\ ReadKey(ki, w, TRUE).err = {}
          /\ tty' = [tty EXCEPT !.stdin = Tail(@)]
          /\ hist' = HistReadKey(hist)
          /\ LET key == Head(tty.stdin)
                 d   == DialogReturn(loc, FALSE)
             IN /\ out' = Logged(ControlKeyLog(app, key))
                /\ IF handleControlKey(app, key)
                   THEN /\ app' = [app EXCEPT !.cancelled = TRUE]
                        /\ pc' = [pc EXCEPT !.main = d.pc]
                        /\ loc' = d.loc
                   ELSE IF loc.dlg \in {"reboot", "shutdown"} /\ key \in {121, 89}
                        THEN /\ pc' = [pc EXCEPT !.main = "dlgAct"]
                             /\ UNCHANGED <<app, loc>>
                   ELSE /\ pc' = [pc EXCEPT !.main = d.pc]
                        /\ loc' = d.loc
                        /\ UNCHANGED app
    /\ UNCHANGED <<kbdVars, fbVars, concVars, chan, proc>>

\* part_002:1061-1067, 1096-1102: the confirmed reboot or shutdown
MainDialogAct ==
    /\ Alive /\ pc.main = "dlgAct"
    /\ \E paintOk, actOk \in BOOLEAN :
         LET d == DialogReturn([loc EXCEPT !.action = IF paintOk THEN loc.dlg ELSE @],
                               ~paintOk \/ ~actOk)
             r == RenderMessage(app.menuRenderer, paintOk)
         IN /\ pc' = [pc EXCEPT !.main = d.pc] /\ loc' = d.loc
            /\ out' = Painted(loc.dlg, r.kind, NoInfo)
    /\ UNCHANGED <<kbdVars, fbVars, concVars, hist, app, chan, tty, kiMu, proc>>

\* a defect: the ticker is not reset on the way out
MainMenuDefer_NoReset ==
    /\ Alive /\ pc.main = "menuDefer" /\ app.mu = "none"
    /\ app' = [app EXCEPT !.running = TRUE]
    /\ pc' = [pc EXCEPT !.main = IF loc.panicking THEN "cleanLock" ELSE "menuReturn"]
    /\ out' = Quiet
    /\ UNCHANGED <<kbdVars, fbVars, concVars, hist, loc, chan, tty, kiMu, proc>>

\* part_002:1140-1146: the deferred function of enterConfigMenu: running =
\* true, the ticker is reset to 5 s
MainMenuDefer ==
    /\ Alive /\ pc.main = "menuDefer" /\ app.mu = "none"
    /\ app' = [app EXCEPT !.running = TRUE]
    /\ loc' = [loc EXCEPT !.ticker = "armed"]
    /\ pc' = [pc EXCEPT !.main = IF loc.panicking THEN "cleanLock" ELSE "menuReturn"]
    /\ out' = Quiet
    /\ UNCHANGED <<kbdVars, fbVars, concVars, hist, chan, tty, kiMu, proc>>

\* part_002:818-822: back in Run, the cache is invalidated and the main page
\* painted; a failure is only logged
MainMenuReturn ==
    /\ Alive /\ pc.main = "menuReturn"
    /\ \E infoOk, renderOk \in BOOLEAN, sysInfo \in Snapshots :
         LET r == showMainMenu(InvalidateCache(app.menuRenderer), infoOk,
                               sysInfo, renderOk)
         IN /\ app' = [app EXCEPT !.menuRenderer = r.mr]
            /\ out' = [Painted("main", r.kind, r.sysInfo) EXCEPT
                         !.log = PaintLog("return", r.err)]
    /\ pc' = [pc EXCEPT !.main = "loop"]
    /\ UNCHANGED <<kbdVars, fbVars, concVars, hist, loc, chan, tty, kiMu, proc>>

\* a defect: the signal goroutine paints a message when a signal arrives
SigReceive_Paints ==
    /\ Alive /\ pc.sig = "wait" /\ tty.sig
    /\ tty' = [tty EXCEPT !.sig = FALSE]
    /\ pc' = [pc EXCEPT !.sig = IF app.disableCtrlC THEN "wait" ELSE "sigStop"]
    /\ out' = Painted("msg", "full", NoInfo)
    /\ UNCHANGED <<kbdVars, fbVars, concVars, hist, app, loc, chan, kiMu, proc>>

\* part_002:709-715: the signal goroutine takes a signal from its channel
SigReceive ==
    /\ Alive /\ pc.sig = "wait" /\ tty.sig
    /\ tty' = [tty EXCEPT !.sig = FALSE]
    /\ pc' = [pc EXCEPT !.sig = IF app.disableCtrlC THEN "wait" ELSE "sigStop"]
    /\ out' = Logged(SignalLog(app))
    /\ UNCHANGED <<kbdVars, fbVars, concVars, hist, app, loc, chan, kiMu, proc>>

\* part_002:716-718
SigStop ==
    /\ Alive /\ pc.sig = "sigStop" /\ app.mu = "none"
    /\ app' = [app EXCEPT !.running = FALSE]
    /\ pc' = [pc EXCEPT !.sig = "sigCancel"]
    /\ UNCHANGED <<kbdVars, fbVars, concVars, hist, loc, chan, tty, kiMu, proc>>
    /\ out' = Quiet

\* part_002:719-722: cancel, sleep one second, then Cleanup
SigCancel ==
    /\ Alive /\ pc.sig = "sigCancel"
    /\ app' = [app EXCEPT !.cancelled = TRUE]
    /\ pc' = [pc EXCEPT !.sig = "cleanLock"]
    /\ UNCHANGED <<kbdVars, fbVars, concVars, hist, loc, chan, tty, kiMu, proc>>
    /\ out' = Quiet

\* part_002:724-725: the context is cancelled, the goroutine returns
SigDone ==
    /\ Alive /\ pc.sig = "wait" /\ app.cancelled
    /\ pc' = [pc EXCEPT !.sig = "done"]
    /\ UNCHANGED <<kbdVars, fbVars, concVars, hist, app, loc, chan, tty, kiMu, proc>>
    /\ out' = Quiet

\* part_002:740-747: the listener ends when the context is cancelled, and
\* polls the keyboard otherwise.  A nil app.keyboard panics; the goroutine
\* recovers and ends (732-736).
PollerRead ==
    /\ Alive /\ pc.poller = "check"
    /\ IF app.cancelled \/ app.keyboard = "nil"
       THEN /\ pc' = [pc EXCEPT !.poller = "done"]
            /\ UNCHANGED <<w, tty, loc, hist>>
       ELSE /\ kiMu = "none"
            /\ \E outcome \in {"EINTR", "selectError", "readError", "ok"} :
                 LET r == ReadKeyNonBlockingWithTimeout(ki, w, tty.stdin, outcome)
                 IN /\ w' = r.w
                    /\ tty' = [tty EXCEPT !.stdin = r.stdin]
                    /\ loc' = [loc EXCEPT !.key = IF r.available THEN r.key ELSE @]
                    /\ hist' = HistPolled(hist, r.available)
                    /\ pc' = [pc EXCEPT !.poller = IF r.err THEN "readErr"
                                                   ELSE IF r.available THEN "send"
                                                   ELSE "check"]
    /\ UNCHANGED <<ki, ret, origTermios, fbVars, concVars, app, chan, kiMu, proc>>
    /\ out' = Quiet

\* part_002:748-756: a read error ends the listener when the application is
\* not running
PollerReadErr ==
    /\ Alive /\ pc.poller = "readErr" /\ app.mu = "none"
    /\ pc' = [pc EXCEPT !.poller = IF ~app.running THEN "done" ELSE "check"]
    /\ UNCHANGED <<kbdVars, fbVars, concVars, hist, app, loc, chan, tty, kiMu, proc>>
    /\ out' = Quiet

\* a defect: the listener waits until keyEventChan has room
PollerSend_Block ==
    /\ Alive /\ pc.poller = "send"
    /\ \/ /\ chan = <<>>
          /\ chan' = <<loc.key>>
          /\ pc' = [pc EXCEPT !.poller = "check"]
          /\ hist' = HistOffered(hist, TRUE)
       \/ /\ app.cancelled
          /\ pc' = [pc EXCEPT !.poller = "done"]
          /\ hist' = HistOffered(hist, FALSE)
          /\ UNCHANGED chan
    /\ loc' = [loc EXCEPT !.key = 0]
    /\ UNCHANGED <<kbdVars, fbVars, concVars, app, tty, kiMu, proc>>
    /\ out' = Quiet

\* part_002:759-767: the key goes to the channel, or is dropped after 50 ms
PollerSend ==
    /\ Alive /\ pc.poller = "send"
    /\ \/ /\ chan = <<>>
          /\ chan' = <<loc.key>>
          /\ pc' = [pc EXCEPT !.poller = "check"]
          /\ hist' = HistOffered(hist, TRUE)
       \/ /\ app.cancelled
          /\ pc' = [pc EXCEPT !.poller = "done"]
          /\ hist' = HistOffered(hist, FALSE)
          /\ UNCHANGED chan
       \/ /\ chan # <<>>
          /\ pc' = [pc EXCEPT !.poller = "check"]
          /\ hist' = HistOffered(hist, FALSE)
          /\ UNCHANGED chan
    /\ loc' = [loc EXCEPT !.key = 0]
    /\ UNCHANGED <<kbdVars, fbVars, concVars, app, tty, kiMu, proc>>
    /\ out' = Quiet

\* a defect: Cleanup leaves the keyboard alone
CleanupLock_SkipKeyboard(g) ==
    /\ Alive /\ pc[g] = "cleanLock" /\ app.mu = "none"
    /\ app' = [app EXCEPT !.mu = g, !.cancelled = TRUE]
    /\ pc' = [pc EXCEPT ![g] = "cleanFb"]
    /\ UNCHANGED <<kbdVars, fbVars, concVars, hist, loc, chan, tty, kiMu, proc>>
    /\ out' = Quiet

\* a defect: Cleanup does not wait for app.mu
CleanupLock_NoMutex(g) ==
    /\ Alive /\ pc[g] = "cleanLock"
    /\ app' = [app EXCEPT !.mu = g, !.cancelled = TRUE]
    /\ pc' = [pc EXCEPT ![g] = IF app.keyboard # "nil" THEN "cleanRestore" ELSE "cleanFb"]
    /\ UNCHANGED <<kbdVars, fbVars, concVars, hist, loc, chan, tty, kiMu, proc>>
    /\ out' = Quiet

\* part_002:1246-1253: Cleanup takes app.mu and cancels the context
CleanupLock(g) ==
    /\ Alive /\ pc[g] = "cleanLock" /\ app.mu = "none"
    /\ app' = [app EXCEPT !.mu = g, !.cancelled = TRUE]
    /\ pc' = [pc EXCEPT ![g] = IF app.keyboard # "nil" THEN "cleanRestore" ELSE "cleanFb"]
    /\ UNCHANGED <<kbdVars, fbVars, concVars, hist, loc, chan, tty, kiMu, proc>>
    /\ out' = Quiet

\* a defect: a failed restore ends Cleanup
CleanupRestore_StopOnError(g) ==
    /\ Alive /\ pc[g] = "cleanRestore" /\ kiMu = "none"
    /\ \E showOk, setOk \in BOOLEAN :
         LET r == RestoreTerminal(ki, w, showOk, setOk)
         IN /\ ki' = r.ki /\ w' = r.w
            /\ pc' = [pc EXCEPT ![g] = IF r.err # {} THEN "cleaned" ELSE "cleanClose"]
            /\ app' = [app EXCEPT !.mu = IF r.err # {} THEN "none" ELSE @]
    /\ UNCHANGED <<ret, origTermios, fbVars, concVars, hist, loc, chan, tty, kiMu, proc>>
    /\ out' = Quiet

\* part_002:1254-1256: app.keyboard.RestoreTerminal()
CleanupRestore(g) ==
    /\ Alive /\ pc[g] = "cleanRestore" /\ kiMu = "none"
    /\ \E showOk, setOk \in BOOLEAN :
         LET r == RestoreTerminal(ki, w, showOk, setOk)
         IN ki' = r.ki /\ w' = r.w
    /\ pc' = [pc EXCEPT ![g] = "cleanClose"]
    /\ UNCHANGED <<ret, origTermios, fbVars, concVars, hist, app, loc, chan, tty, kiMu, proc>>
    /\ out' = Quiet

\* part_002:1257-1260: app.keyboard.Close(); app.keyboard = nil
CleanupClose(g) ==
    /\ Alive /\ pc[g] = "cleanClose" /\ kiMu = "none"
    /\ \E showOk, setOk, devOk, ttyOk \in BOOLEAN :
         LET r == Close(ki, w, showOk, setOk, devOk, ttyOk)
         IN ki' = r.ki /\ w' = r.w
    /\ app' = [app EXCEPT !.keyboard = "nil"]
    /\ pc' = [pc EXCEPT ![g] = "cleanFb"]
    /\ UNCHANGED <<ret, origTermios, fbVars, concVars, hist, loc, chan, tty, kiMu, proc>>
    /\ out' = Quiet

\* part_002:1263-1270: the framebuffer is closed, running = false, app.mu is
\* released
CleanupFb(g) ==
    /\ Alive /\ pc[g] = "cleanFb"
    /\ IF app.fb # "nil"
       THEN \E munmapOk, closeOk \in BOOLEAN :
              LET r == FrameBufferClose(fb, fbw, munmapOk, closeOk)
              IN fb' = r.fb /\ fbw' = r.fbw
       ELSE UNCHANGED <<fb, fbw>>
    /\ app' = [app EXCEPT !.fb = "nil", !.running = FALSE, !.mu = "none"]
    /\ pc' = [pc EXCEPT ![g] = "cleaned"]
    /\ UNCHANGED <<kbdVars, fbret, concVars, hist, loc, chan, tty, kiMu, proc>>
    /\ out' = Quiet

\* part_002:596-610: main returns after its deferred Cleanup
MainReturn ==
    /\ Alive /\ pc.main = "cleaned"
    /\ proc' = "returned"
    /\ UNCHANGED <<kbdVars, fbVars, concVars, hist, app, pc, loc, chan, tty, kiMu>>
    /\ out' = Quiet

\* part_002:723: os.Exit(0) in the signal goroutine
SigExit ==
    /\ Alive /\ pc.sig = "cleaned"
    /\ proc' = "osExit"
    /\ UNCHANGED <<kbdVars, fbVars, concVars, hist, app, pc, loc, chan, tty, kiMu>>
    /\ out' = Quiet

Next ==
    \/ TypeKey
    \/ SendSignal
    \/ MainNewApplication
    \/ MainSetupSignalHandler
    \/ MainRun
    \/ MainFirstPaint
    \/ MainLoopDone
    \/ MainLoopTick
    \/ MainLoopKey
    \/ MainEnterConfigMenu
    \/ MainMenuShow
    \/ MainMenuKey
    \/ MainMenuDone
    \/ MainDialogRender
    \/ MainDialogLock
    \/ MainDialogRead
    \/ MainDialogAct
    \/ MainMenuDefer
    \/ MainMenuReturn
    \/ SigReceive
    \/ SigStop
    \/ SigCancel
    \/ SigDone
    \/ PollerRead
    \/ PollerReadErr
    \/ PollerSend
    \/ \E g \in {"main", "sig"} :
         \/ CleanupLock(g)
         \/ CleanupRestore(g)
         \/ CleanupClose(g)
         \/ CleanupFb(g)
    \/ MainReturn
    \/ SigExit

Spec == InitApp /\ [][Next]_vars

\* the process has exited after the keyboard was opened
Exited == proc \in {"returned", "osExit"}

C2_Original == proc = "aborted" => w.termios = origTermios /\ w.cursor

----------------------------------------------------------------------------
(* Claims about FrameBuffer.Close, checked under SpecFBConc *)

\* the goroutines whose Close call has returned or is about to
Closers == { t \in DOMAIN thr : thr[t].op = "Close" /\ thr[t].pc \in {"unlock", "done"} }

\* the steps that fail in the Close call of goroutine t, were it the first
CloseStepFailures(t) ==
    (IF ~thr[t].args[1] THEN {"munmap"} ELSE {}) \cup
    (IF ~thr[t].args[2] THEN {"device"} ELSE {})

\* C12: Close unmaps the region first and closes the descriptor second, marks
\* the handle closed even when a step reports an error, and a second Close
\* returns no error and performs neither step: each is done at most once.
C12_CloseOnce ==
    /\ fbw.munmaps <= 1 /\ fbw.devCloses <= 1
    /\ fbw.devCloses = 1 => fbw.munmaps = 1
    /\ \A t \in Closers :
          /\ fb.closed /\ fb.device = "nil" /\ fb.fbData.nil
          /\ fbw.munmaps = 1 /\ fbw.devCloses = 1
          /\ thr[t].err \in {{}, CloseStepFailures(t)}
    /\ \A t, u \in Closers : t # u => thr[t].err = {} \/ thr[u].err = {}

\* two goroutines have called Close: the first reported both failures, the
\* second, although its calls would have failed too, returned no error
C12_Witness ==
    /\ \E t, u \in Closers :
          /\ t # u
          /\ thr[t].err = {"munmap", "device"}
          /\ thr[u].err = {} /\ CloseStepFailures(u) = {"munmap", "device"}
    /\ fb.closed /\ fbw.munmaps = 1 /\ fbw.devCloses = 1

\* goroutine g is inside Cleanup, past its first statements
InCleanup(g) == pc[g] \in {"cleanRestore", "cleanClose", "cleanFb"}

\* C14 (as amended): the signal handler clears the running flag and raises
\* the cancellation before it calls Cleanup; on every shutdown the
\* cancellation is raised before the first cleanup step (at the latest by
\* Cleanup itself); Cleanup restores the terminal, closes the keyboard and
\* closes the framebuffer in that order, whatever errors the steps return,
\* and clears the running flag as its last statement.
C14_ShutdownProtocol ==
    /\ [][pc.sig = "sigStop" /\ pc'.sig # "sigStop" =>
              ~app'.running /\ pc'.sig = "sigCancel"]_vars
    /\ [][pc.sig = "sigCancel" /\ pc'.sig # "sigCancel" =>
              app'.cancelled /\ pc'.sig = "cleanLock"]_vars
    /\ [](\A g \in {"main", "sig"} : InCleanup(g) \/ pc[g] = "cleaned" => app.cancelled)
    /\ [](fb.closed => ki.closed)
    /\ [](ki.closed => w.sys.showWrites >= 1)
    /\ [](\A g \in {"main", "sig"} :
              pc[g] = "cleaned" =>
                  ki.closed /\ fb.closed /\ app.keyboard = "nil" /\ app.fb = "nil")
    /\ [][\A g \in {"main", "sig"} :
              pc[g] = "cleanFb" /\ pc'[g] = "cleaned" => ~app'.running]_vars

\* C14 as stated: on every shutdown trigger the running flag is cleared and
\* the cancellation raised before the cleanup steps run, which happen in the
\* order restore terminal, close keyboard, close framebuffer
C14_Original ==
    /\ \A g \in {"main", "sig"} : InCleanup(g) => app.cancelled /\ ~app.running
    /\ fb.closed => ki.closed
    /\ ki.closed => w.sys.showWrites >= 1

\* Cleanup has finished although both attempts to restore the terminal and
\* the munmap failed: the keyboard and the framebuffer are closed all the same
C14_Witness ==
    /\ \E g \in {"main", "sig"} : pc[g] = "cleaned"
    /\ w.sys.restoreApplied = 0 /\ w.sys.showWrites = 2
    /\ fbw.mapped /\ fbw.munmaps = 1
    /\ ki.closed /\ fb.closed

----------------------------------------------------------------------------
(* Claims about waiting, checked under Spec                                 *)

\* the places where main waits for an event: the select of Run (792-852),
\* the select of enterConfigMenu (1160-1186) and the read of ReadKey inside
\* a page (renderer.go:438)
MainWaits == {"loop", "menuSelect", "dlgRead"}

\* C15: once the context is cancelled, every goroutine that waits can take
\* the step that sees the cancellation and ends the wait, whatever the
\* keyboard holds: main at each of its waits, the signal goroutine at its
\* select, the listener before a poll and while it offers a key.
C15_Original ==
    Alive /\ app.cancelled =>
      /\ pc.main \in MainWaits => ENABLED (MainLoopDone \/ MainMenuDone)
      /\ pc.sig = "wait" => ENABLED SigDone
      /\ pc.poller = "check" => ENABLED (PollerRead /\ pc'.poller = "done")
      /\ pc.poller = "send" => ENABLED (PollerSend /\ pc'.poller = "done")

\* main leaves a wait for the screen before it: the configuration menu for
\* the main page, a page for the configuration menu
FallsBack ==
    \/ pc.main = "menuSelect" /\ pc'.main = "menuDefer"
    \/ pc.main = "dlgRead" /\ pc'.main = "menu"

\* C16: at the selection wait of the configuration menu and at the key wait
\* of every page, main can fall back to the previous screen by a step that
\* takes no key and needs no cancellation.
C16_Original ==
    Alive /\ ~app.cancelled /\ pc.main \in {"menuSelect", "dlgRead"} =>
      ENABLED (Next /\ FallsBack /\ UNCHANGED <<tty, chan, app>>)

----------------------------------------------------------------------------
(* Claims about control keys and signals, checked under Spec                *)

ControlKeys == {3, 26, 28, 4}

\* main takes a key at one of its key-read sites: the select of Run, the
\* select of enterConfigMenu, the ReadKey of a page
KeyStep ==
    \/ MainLoopKey
    \/ MainMenuKey
    \/ MainDialogRead /\ tty' # tty

\* the key such a step takes
KeyTaken == IF pc.main = "dlgRead" THEN Head(tty.stdin) ELSE Head(chan)

\* the cleanup that follows the return of Run
MainCleaning == pc.main \in {"cleanLock", "cleanRestore", "cleanClose", "cleanFb", "cleaned"}

\* C17: with exit disabled, a step that takes one of the four control keys
\* at any key-read site, and the step that takes a signal, leave the
\* cancellation and the running flag as they are and write a log entry
\* saying that the key or the signal was ignored; the signal goroutine never
\* goes on to shut down, and the context is only ever cancelled by the
\* Cleanup of main after Run has returned.
C17_ExitDisabled ==
    /\ [][app.disableCtrlC /\ KeyStep /\ KeyTaken \in ControlKeys =>
            /\ app'.cancelled = app.cancelled
            /\ app'.running = app.running
            /\ out'.log = <<"ignored", "key", KeyTaken>>]_vars
    /\ [][app.disableCtrlC /\ SigReceive =>
            /\ app'.cancelled = app.cancelled
            /\ app'.running = app.running
            /\ out'.log = <<"ignored", "signal", 0>>]_vars
    /\ [](app.disableCtrlC => pc.sig \in {"off", "wait", "done"})
    /\ [](app.disableCtrlC /\ app.cancelled /\ pc.main # "fatal" =>
            MainCleaning /\ pc.main # "cleanLock")

\* Ctrl+D has been ignored in the configuration menu or in one of its pages
C17_Witness ==
    /\ app.disableCtrlC /\ ~app.cancelled /\ ~app.running
    /\ out.log = <<"ignored", "key", 4>>
    /\ pc.main = "menu" /\ kiMu = "none" /\ tty.stdin = <<>> /\ chan = <<>>
    /\ pc.poller = "check" /\ loc.key = 0

\* C18 as stated: with exit enabled, a step that takes one of the four
\* control keys at any key-read site raises the cancellation.
C18_Original ==
    [][~app.disableCtrlC /\ KeyStep /\ KeyTaken \in ControlKeys => app'.cancelled]_vars

\* C18: with exit enabled, a step that takes one of the four control keys in
\* the configuration menu or in a page, or on the main page while the
\* running flag is set, raises the cancellation, logs the exit and leaves
\* the menu or the page; on the main page the key is discarded while the
\* running flag is clear, which happens only after the signal goroutine has
\* begun to shut down.
C18_ExitEnabled ==
    /\ [][~app.disableCtrlC /\ KeyStep /\ KeyTaken \in ControlKeys
            /\ (pc.main = "loop" => app.running) =>
            /\ app'.cancelled
            /\ out'.log = <<"exiting", "key", KeyTaken>>
            /\ pc.main = "menuSelect" => pc'.main = "menuDefer"
            /\ pc.main = "dlgRead" => pc'.main = "menu"]_vars
    /\ [][KeyStep /\ pc.main = "loop" /\ ~app.running =>
            out'.log = <<>> /\ UNCHANGED <<app, pc>>]_vars
    /\ [](pc.main = "loop" /\ ~app.running =>
            ~app.disableCtrlC /\ pc.sig \notin {"off", "wait", "sigStop", "done"})

\* Ctrl+Z has ended a page opened from the configuration menu
C18_Witness ==
    /\ ~app.disableCtrlC /\ app.cancelled
    /\ out.log = <<"exiting", "key", 26>>
    /\ pc.main = "menu" /\ kiMu = "none"

----------------------------------------------------------------------------
(* Claims about the configuration menu and the refresh, checked under Spec  *)

\* main is inside enterConfigMenu, after its first statements and before
\* its deferred function
InModal ==
    pc.main \in {"menu", "menuSelect", "dlgRender", "dlgLock", "dlgRead", "dlgAct",
                 "menuDefer"}

\* C19: Enter on the main page takes main into the configuration menu with
\* the running flag cleared and the ticker stopped, and both stay so until
\* the deferred function of enterConfigMenu runs; no step taken meanwhile
\* paints the main page or handles a key of the main page.  The deferred
\* function sets the running flag and resets the ticker, and the step after
\* it, back in Run, paints the main page with the cache invalidated: the
\* paint never takes the unchanged-content shortcut.
C19_ModalTransition ==
    /\ [][pc.main = "loop" /\ pc'.main = "menuEnter" =>
            app.running /\ chan # <<>> /\ Head(chan) \in {10, 13}]_vars
    /\ [][pc.main = "menuEnter" /\ pc'.main # "menuEnter" =>
            pc'.main = "menu" /\ ~app'.running /\ loc'.ticker = "stopped"]_vars
    /\ [](InModal => ~app.running /\ loc.ticker = "stopped")
    /\ [][InModal => out'.page # "main" /\ ~MainLoopKey /\ ~MainLoopTick]_vars
    /\ [][pc.main = "menuDefer" /\ pc'.main # "menuDefer" =>
            app'.running /\ loc'.ticker = "armed"]_vars
    /\ [][pc.main = "menuReturn" /\ pc'.main # "menuReturn" =>
            /\ pc'.main = "loop"
            /\ out'.page = "main" /\ out'.kind # "skip"
            /\ out'.kind = "full" =>
                 /\ app'.menuRenderer.staticRendered
                 /\ app'.menuRenderer.lastContent = generateNewMainMenuContent(out'.sysInfo)]_vars

\* main has left the configuration menu and is about to paint the main page,
\* whose content of before the menu is still in the cache
C19_Witness ==
    /\ pc.main = "menuReturn" /\ app.running /\ loc.ticker = "armed"
    /\ ~app.cancelled
    /\ app.menuRenderer.lastContent # <<>> /\ ~app.menuRenderer.staticRendered

\* C20 as stated: a refresh cycle of the ticker that finds on the screen the
\* main page painted from an identical snapshot writes nothing to the
\* framebuffer.
C20_Original ==
    [][/\ MainLoopTick /\ app.running
       /\ app.menuRenderer.staticRendered
       /\ out'.sysInfo # NoInfo
       /\ generateNewMainMenuContent(out'.sysInfo) = app.menuRenderer.lastContent
       => ~Wrote(out')]_vars

----------------------------------------------------------------------------
(* SpecMenu: the MenuRenderer alone (part_006), its paint operations called *)
(* in any order with any snapshot.                                          *)

\* the snapshots the main page is painted from
MenuSnapshots == [Uptime : {1, 2}, CurrentTime : {1, 2, 3}]

InitMenu ==
    /\ KbdIdle
    /\ FbIdle
    /\ ConcIdle
    /\ AppIdle

\* part_006:41-65  RenderMainMenu(sysInfo)
MenuRenderMainMenu ==
    /\ \E sysInfo \in MenuSnapshots, renderOk \in BOOLEAN :
         LET r == RenderMainMenu(app.menuRenderer, sysInfo, renderOk)
         IN /\ app' = [app EXCEPT !.menuRenderer = r.mr]
            /\ out' = Painted("main", r.kind, sysInfo)
    /\ UNCHANGED <<kbdVars, fbVars, concVars, hist, pc, loc, chan, tty, kiMu, proc>>

\* part_006:150-174  RenderConfigMenu()
MenuRenderConfigMenu ==
    /\ \E renderOk \in BOOLEAN :
         LET r == RenderConfigMenu(app.menuRenderer, renderOk)
         IN /\ app' = [app EXCEPT !.menuRenderer = r.mr]
            /\ out' = Painted("config", r.kind, NoInfo)
    /\ UNCHANGED <<kbdVars, fbVars, concVars, hist, pc, loc, chan, tty, kiMu, proc>>

\* part_006:183-223  RenderNetworkInfo(interfaces) and RenderMessage(message)
MenuRenderMessage ==
    /\ \E renderOk \in BOOLEAN :
         LET r == RenderMessage(app.menuRenderer, renderOk)
         IN /\ app' = [app EXCEPT !.menuRenderer = r.mr]
            /\ out' = Painted("msg", r.kind, NoInfo)
    /\ UNCHANGED <<kbdVars, fbVars, concVars, hist, pc, loc, chan, tty, kiMu, proc>>

\* part_006:177-181  InvalidateCache()
MenuInvalidateCache ==
    /\ app' = [app EXCEPT !.menuRenderer = InvalidateCache(@)]
    /\ out' = Quiet
    /\ UNCHANGED <<kbdVars, fbVars, concVars, hist, pc, loc, chan, tty, kiMu, proc>>

NextMenu ==
    \/ MenuRenderMainMenu
    \/ MenuRenderConfigMenu
    \/ MenuRenderMessage
    \/ MenuInvalidateCache

SpecMenu == InitMenu /\ [][NextMenu]_vars

\* the step is a call of RenderMainMenu
MainMenuCall == MenuRenderMainMenu /\ out'.page = "main"

\* C21 as stated: a paint of the main page with other content than the
\* cached one, the static content drawn and no clear pending, performs no
\* Clear of the whole device.
C21_Original ==
    [][/\ MainMenuCall
       /\ app.menuRenderer.staticRendered /\ ~app.menuRenderer.needsClear
       /\ generateNewMainMenuContent(out'.sysInfo) # app.menuRenderer.lastContent
       => ~Wrote(out')]_vars

\* C30: RenderMainMenu returns without a write and without a change of the
\* cache exactly when the content of the snapshot equals lastContent and
\* staticRendered is set; otherwise it clears and paints, and a successful
\* paint stores the content and sets staticRendered, while a failed one
\* leaves both as they were.
C30_SkipIff ==
    [][MainMenuCall =>
         LET m == app.menuRenderer
             n == app'.menuRenderer
             c == generateNewMainMenuContent(out'.sysInfo)
         IN /\ out'.kind = "skip" <=> (c = m.lastContent /\ m.staticRendered)
            /\ out'.kind = "skip" => n = m /\ ~Wrote(out')
            /\ out'.kind # "skip" => Wrote(out')
            /\ out'.kind = "full" => n.lastContent = c /\ n.staticRendered
            /\ out'.kind = "cleared" =>
                 n.lastContent = m.lastContent /\ n.staticRendered = m.staticRendered]_vars

\* the content on the screen has been offered again and skipped
C30_Witness ==
    /\ out.page = "main" /\ out.kind = "skip"
    /\ app.menuRenderer.staticRendered
    /\ app.menuRenderer.lastContent = generateNewMainMenuContent(out.sysInfo)
    /\ out.sysInfo.CurrentTime = 2

\* C31: after another page was painted (RenderConfigMenu, RenderMessage,
\* RenderNetworkInfo), the next RenderMainMenu is not skipped, even with the
\* snapshot that was painted last.
C31_Original ==
    [][MainMenuCall /\ out.page \in {"config", "msg"} => out'.kind # "skip"]_vars

----------------------------------------------------------------------------
(* Claims about the refresh of the main page, checked under Spec            *)

\* C22: a tick of the ticker whose paint fails in the renderer leaves main
\* in its loop with the ticker armed and the process running, writes the
\* error to the log, and leaves the cache without the content of the failed
\* paint and with staticRendered clear; and no tick that obtains a snapshot
\* skips the paint.
C22_RefreshFailure ==
    /\ [][MainLoopTick /\ out'.kind = "cleared" =>
            /\ out'.log = <<"error", "refresh", 0>>
            /\ pc'.main = "loop" /\ proc' = "running" /\ loc'.ticker = "armed"
            /\ ~app'.menuRenderer.staticRendered
            /\ app'.menuRenderer.lastContent # generateNewMainMenuContent(out'.sysInfo)]_vars
    /\ [][MainLoopTick /\ app.running /\ out'.sysInfo # NoInfo => Wrote(out')]_vars

\* a refresh of the main page has failed in the renderer
C22_Witness ==
    /\ pc.main = "loop" /\ proc = "running" /\ app.running /\ ~app.cancelled
    /\ out.page = "main" /\ out.kind = "cleared"
    /\ out.log = <<"error", "refresh", 0>>
    /\ out.sysInfo.CurrentTime = 2
    /\ ~app.menuRenderer.staticRendered

-----------------------------------------------------------------------------
(* SpecRelay: the application with the way of each key recorded.  The user  *)
(* types at most MaxTyped keys and sends no signal.                          *)

MaxTyped == 4

\* Enter, '4', 'y' and Ctrl+C
RelayKeys == {13, 52, 121, 3}

InitRelay ==
    /\ InitProgram
    /\ ~app.disableCtrlC
    /\ hist = [NoHist EXCEPT !.on = TRUE]

\* the user presses a key
RelayTypeKey ==
    /\ Alive /\ pc.main # "start"
    /\ hist.arrived < MaxTyped
    /\ \E key \in RelayKeys : tty' = [tty EXCEPT !.stdin = Append(@, key)]
    /\ hist' = HistTyped(hist)
    /\ UNCHANGED <<kbdVars, fbVars, concVars, app, pc, loc, chan, kiMu, proc>>
    /\ out' = Quiet

NextRelay ==
    \/ RelayTypeKey
    \/ MainNewApplication
    \/ MainSetupSignalHandler
    \/ MainRun
    \/ MainFirstPaint
    \/ MainLoopDone
    \/ MainLoopTick
    \/ MainLoopKey
    \/ MainEnterConfigMenu
    \/ MainMenuShow
    \/ MainMenuKey
    \/ MainMenuDone
    \/ MainDialogRender
    \/ MainDialogLock
    \/ MainDialogRead
    \/ MainDialogAct
    \/ MainMenuDefer
    \/ MainMenuReturn
    \/ SigDone
    \/ PollerRead
    \/ PollerReadErr
    \/ PollerSend
    \/ CleanupLock("main")
    \/ CleanupRestore("main")
    \/ CleanupClose("main")
    \/ CleanupFb("main")
    \/ MainReturn

SpecRelay == InitRelay /\ [][NextRelay]_vars

-----------------------------------------------------------------------------
(* Claims about the way of the keys, checked under SpecRelay *)

\* the keys the main goroutine has taken, by their number of arrival
Taken == {hist.taken[i] : i \in 1..Len(hist.taken)}

\* the keys read from the terminal that are nowhere in the program any more
\* and that the main goroutine never took
Lost == {i \in 1..hist.read : i \notin Taken /\ i # hist.held /\ i # hist.sent}

\* C23: keyEventChan never holds more than one key.  The listener holding a key
\* can always go on: it puts the key into the empty channel, or, the channel
\* being full, drops the key and polls again, or, the context being
\* cancelled, ends.  Once the context is cancelled the listener reads no
\* further byte from the terminal: its next check ends it.
C23_Relay ==
    /\ [](Len(chan) <= 1)
    /\ [](Alive /\ pc.poller = "send" => ENABLED PollerSend)
    /\ [][PollerSend =>
            /\ loc'.key = 0
            /\ IF chan' # chan
               THEN chan = <<>> /\ chan' = <<loc.key>> /\ pc'.poller = "check"
               ELSE IF pc'.poller = "done" THEN app.cancelled
               ELSE /\ chan # <<>> /\ pc'.poller = "check"
                    /\ Lost' = Lost \cup {hist.held}]_vars
    /\ [][PollerRead /\ app.cancelled =>
            pc'.poller = "done" /\ UNCHANGED <<tty, w, loc>>]_vars

\* a key was dropped because keyEventChan was full, and the listener polls
\* again
C23_Witness ==
    /\ Alive /\ ~app.cancelled /\ pc.poller = "check"
    /\ chan # <<>> /\ loc.key = 0
    /\ hist.read - 1 \in Lost

\* C24: the keys the main goroutine takes, in the main loop, in the
\* configuration menu and in the dialogs together, are taken in the order of
\* their arrival at the terminal.
C24_Original ==
    \A i, j \in 1..Len(hist.taken) : i < j => hist.taken[i] < hist.taken[j]

\* the main goroutine goes on to reboot or shut down the device
Confirms == pc.main # "dlgAct" /\ pc'.main = "dlgAct"

\* the part of C27 about the dialog and its key: the device is rebooted or
\* shut down only by the key 'y' or 'Y' read in the reboot or the shutdown
\* dialog
C27_OnlyOnYes ==
    [][Confirms => /\ MainDialogRead
                   /\ loc.dlg \in {"reboot", "shutdown"}
                   /\ tty.stdin # <<>> /\ Head(tty.stdin) \in {121, 89}]_vars

\* C27: the device is rebooted or shut down only from the reboot or the
\* shutdown dialog and only by the key 'y' or 'Y' read there, and no key typed
\* before the dialog was painted has this effect.
C27_Original ==
    [][Confirms => /\ MainDialogRead
                   /\ loc.dlg \in {"reboot", "shutdown"}
                   /\ tty.stdin # <<>> /\ Head(tty.stdin) \in {121, 89}
                   /\ hist.read + 1 > hist.shown]_vars

-----------------------------------------------------------------------------
(* SpecRead: a client of an open KeyboardInput closes it or not, and then   *)
(* makes one call that reads keys.                                          *)

\* turns of the loop of a wait that are followed up
MaxTurns == 2

\* what select and read do in one non-blocking read: select is interrupted
\* by a signal, select fails, read fails, read returns no byte, both succeed
Outcomes == {"EINTR", "selectError", "readError", "eof", "ok"}

\* the timeout of a wait
Timeouts == {0, 30}

\* the bytes waiting in the terminal: none, Enter, 'x' and then '1'
Stdins == {<<>>, <<13>>, <<120, 49>>}

\* the clock and the system calls during a wait: the first check of the
\* timeout comes at once (0) or a moment after the start (1), a later one a
\* moment after the start or after more than 30 s (31)
Envs ==
    { e \in UNION { [1..n -> [since : {0, 1, 31}, outcome : Outcomes]] : n \in 1..MaxTurns } :
        /\ e[1].since \in {0, 1}
        /\ \A i \in 2..Len(e) : e[i].since \in {1, 31} }

InitRead ==
    /\ origTermios \in AppTermios
    /\ LET r == NewKeyboardInput([termios |-> origTermios, cursor |-> TRUE,
                                  sys |-> ZeroSys], TRUE, TRUE, TRUE, TRUE, TRUE)
       IN ki = r.ki /\ w = r.w
    /\ ret = NoRet
    /\ FbIdle
    /\ ConcIdle
    /\ hist = NoHist
    /\ app = NewApp(FALSE)
    /\ pc = [main |-> "off", sig |-> "off", poller |-> "off"]
    /\ loc = NoLoc
    /\ chan = <<>>
    /\ tty \in [stdin : Stdins, sig : {FALSE}]
    /\ kiMu = "none"
    /\ proc = "off"
    /\ out = Quiet

\* the client has made no reading call yet
CanRead == ki.exists /\ ret.op \in {"none", "Close"}

\* a call that reads: its name, its inputs, its result
Read(op, in, r) ==
    /\ w' = r.w
    /\ tty' = [tty EXCEPT !.stdin = r.stdin]
    /\ ret' = [n |-> ret.n + 1, op |-> op, in |-> in, pre |-> ki,
               err |-> IF r.err THEN {r.why} ELSE {},
               val |-> [key |-> r.key, available |-> r.available, calls |-> r.calls,
                        stdin |-> tty.stdin]]
    /\ UNCHANGED <<ki, origTermios, fbVars, concVars>>
    /\ UNCHANGED <<app, pc, loc, chan, kiMu, proc, out, hist>>

ReadClose == ret.n = 0 /\ KbdClose

ReadReadKey ==
    /\ CanRead
    /\ \E readOk \in BOOLEAN :
         LET r == ReadKey(ki, w, readOk)
             got == r.err = {} /\ tty.stdin # <<>>
         IN /\ r.err = {} => tty.stdin # <<>>
            /\ Read("ReadKey", <<readOk>>,
                    [w |-> r.w, stdin |-> IF got THEN Tail(tty.stdin) ELSE tty.stdin,
                     key |-> IF got THEN Head(tty.stdin) ELSE 0, available |-> got,
                     err |-> r.err # {}, why |-> IF r.err = {} THEN "none" ELSE CHOOSE e \in r.err : TRUE,
                     calls |-> IF r.w = w THEN <<>> ELSE <<"read">>])

ReadNonBlocking ==
    /\ CanRead
    /\ \E outcome \in Outcomes :
         Read("ReadKeyNonBlocking", <<outcome>>, ReadKeyNonBlocking(ki, w, tty.stdin, outcome))

ReadNonBlockingWithTimeout ==
    /\ CanRead
    /\ \E outcome \in Outcomes :
         Read("ReadKeyNonBlockingWithTimeout", <<outcome>>,
              ReadKeyNonBlockingWithTimeout(ki, w, tty.stdin, outcome))

ReadWaitForKey ==
    /\ CanRead
    /\ \E timeout \in Timeouts, env \in Envs, keys \in {{}, {10, 13}} :
         Read("WaitForKeyWithTimeout", <<timeout, env[1].since>>,
              WaitForKeyWithTimeout(ki, w, tty.stdin, timeout, env, keys, <<>>))

ReadWaitForMenuChoice ==
    /\ CanRead
    /\ \E timeout \in Timeouts, env \in Envs :
         Read("WaitForMenuChoiceWithTimeout", <<timeout, env[1].since>>,
              WaitForMenuChoiceWithTimeout(ki, w, tty.stdin, timeout, env, <<>>))

ReadWaitForEnterWithContext ==
    /\ CanRead
    /\ \E env \in Envs, ctxDone, viaCtx \in BOOLEAN :
         Read("WaitForEnterWithContext", <<30, env[1].since, IF ctxDone THEN 1 ELSE 0>>,
              WaitForEnterWithContext(ki, w, tty.stdin, env, ctxDone, viaCtx))

NextRead ==
    \/ ReadClose
    \/ ReadReadKey
    \/ ReadNonBlocking
    \/ ReadNonBlockingWithTimeout
    \/ ReadWaitForKey
    \/ ReadWaitForMenuChoice
    \/ ReadWaitForEnterWithContext

SpecRead == InitRead /\ [][NextRead]_vars

-----------------------------------------------------------------------------
(* Claims about the reading calls, checked under SpecRead *)

NonBlockingReads == {"ReadKeyNonBlocking", "ReadKeyNonBlockingWithTimeout"}

\* C25: a non-blocking read of an open KeyboardInput, with or without a
\* timeout, reports "no key" without an error and takes no byte from the
\* terminal when nothing is readable and when select is interrupted by a
\* signal; it returns an error only when select or read really fails.
C25_Original ==
    ret.op \in NonBlockingReads /\ ~ret.pre.closed =>
        LET outcome == ret.in[1]
            nothing == \/ outcome = "EINTR"
                       \/ outcome # "selectError" /\ ret.val.stdin = <<>>
        IN /\ nothing => /\ ret.err = {}
                         /\ ~ret.val.available
                         /\ tty.stdin = ret.val.stdin
           /\ ret.err # {} => outcome \in {"selectError", "readError"}

\* the waits, which check their timeout before they read
Waits == {"WaitForKeyWithTimeout", "WaitForMenuChoiceWithTimeout",
          "WaitForEnterWithContext"}

ReadOps == {"ReadKey"} \cup NonBlockingReads \cup Waits

\* a reading call on a closed KeyboardInput has returned
ReadAfterClose == ret.op \in ReadOps /\ ret.pre.closed

\* C26: after Close every reading call returns the device-closed error, and
\* makes no select and no read on the descriptor.
C26_Original ==
    ReadAfterClose => /\ ret.err = {"closed"}
                      /\ ret.val.calls = <<>>
                      /\ tty.stdin = ret.val.stdin

\* C26, amended: after Close every reading call returns an error, returns no
\* key, and makes no select and no read on the descriptor.  The error is the
\* device-closed error, except that a wait whose timeout has already passed
\* at its first check returns the timeout error, and WaitForEnterWithContext
\* with a cancelled context may return the error of the context.
C26_Closed ==
    ReadAfterClose =>
        /\ ret.val.calls = <<>>
        /\ tty.stdin = ret.val.stdin
        /\ ~ret.val.available
        /\ IF ret.op = "WaitForEnterWithContext" /\ ret.err = {"context"}
           THEN ret.in[3] = 1
           ELSE IF ret.op \in Waits /\ ret.in[2] > ret.in[1]
           THEN ret.err = {"timeout"}
           ELSE ret.err = {"closed"}

\* a wait on a closed KeyboardInput with bytes in the terminal has returned
\* the device-closed error
C26_Witness ==
    /\ ReadAfterClose /\ ret.op = "WaitForKeyWithTimeout"
    /\ ret.err = {"closed"} /\ ret.val.stdin # <<>>

-----------------------------------------------------------------------------
(* SpecExit: the application started with -d, and a user who goes on typing *)
(* the keys of the configuration menu.  No signal is sent.                  *)

\* Enter, '1', '4', 'y' and 'q'
MenuKeys == {13, 49, 52, 121, 113}

InitExit ==
    /\ InitProgram
    /\ app.disableCtrlC
    /\ hist = NoHist

\* the user presses a key of the menu while the main goroutine is at page
ExitTypeKey(key, page) ==
    /\ Alive /\ pc.main = page
    /\ InFlight < MaxPending
    /\ tty' = [tty EXCEPT !.stdin = Append(@, key)]
    /\ UNCHANGED <<kbdVars, fbVars, concVars, hist, app, pc, loc, chan, kiMu, proc>>
    /\ out' = Quiet

\* where the main goroutine waits for a key
KeyPages == {"loop", "menuSelect", "dlgRead"}

ExitMain ==
    \/ MainNewApplication
    \/ MainSetupSignalHandler
    \/ MainRun
    \/ MainFirstPaint
    \/ MainLoopTick
    \/ MainLoopKey
    \/ MainEnterConfigMenu
    \/ MainMenuShow
    \/ MainMenuKey
    \/ MainDialogRender
    \/ MainDialogLock
    \/ MainDialogRead
    \/ MainDialogAct
    \/ MainMenuDefer
    \/ MainMenuReturn
    \/ CleanupLock("main")
    \/ CleanupRestore("main")
    \/ CleanupClose("main")
    \/ CleanupFb("main")
    \/ MainReturn

ExitPoller == PollerRead \/ PollerReadErr \/ PollerSend

NextExit ==
    \/ \E key \in MenuKeys, page \in KeyPages : ExitTypeKey(key, page)
    \/ ExitMain
    \/ SigDone
    \/ ExitPoller

\* the scheduler and the user: no goroutine that can take a step waits for
\* ever, a select with a key ready does not take the ticker for ever, a key
\* that waits in the terminal is read, and the user tries every key at every
\* page again and again
ExitFair ==
    /\ WF_vars(ExitMain) /\ WF_vars(ExitPoller)
    /\ SF_vars(MainLoopKey)
    /\ SF_vars(PollerRead /\ pc'.poller = "send")
    /\ SF_vars(MainDialogRead /\ tty' # tty)
    /\ \A key \in MenuKeys, page \in KeyPages : SF_vars(ExitTypeKey(key, page))

SpecExit == InitExit /\ [][NextExit]_vars /\ ExitFair

\* C28: started with -d, the program can still be made to exit from the
\* configuration menu: the user who tries every selection of the menu and
\* every answer in its pages again and again gets the process to end.
C28_Original == <>(proc # "running")

\* where the main goroutine is between the first paint and the end of Run
RunPages == {"loop", "menuEnter", "menu", "menuSelect", "dlgRender", "dlgLock",
             "dlgRead", "dlgAct", "menuDefer", "menuReturn"}

\* what the code does instead: started with -d, the main goroutine never
\* leaves Run once the main page is up, whatever is typed or sent
C28_NoWayOut ==
    [][app.disableCtrlC /\ pc.main \in RunPages =>
         pc'.main \in RunPages /\ proc' = "running"]_vars

-----------------------------------------------------------------------------
(* Claims about the control path of the main goroutine, checked under Spec *)

\* the steps of the main goroutine that paint
MainPaints ==
    \/ MainFirstPaint
    \/ MainLoopTick
    \/ MainMenuShow
    \/ MainDialogRender
    \/ MainDialogAct
    \/ MainMenuReturn

\* how many of the three cases of the select of Run this step is
LoopCases ==
    (IF MainLoopDone THEN 1 ELSE 0) + (IF MainLoopTick THEN 1 ELSE 0)
        + (IF MainLoopKey THEN 1 ELSE 0)

\* C29: a step of the main goroutine at the select of Run is exactly one of
\* its three cases: the cancellation, the tick, a key.  Every page is painted
\* by a step of the main goroutine, the other two goroutines standing still
\* in that step, so that no two paints run at the same time.
C29_OnePainter ==
    /\ [][/\ pc.main = "loop"
            /\ \/ pc'.main # "loop"
               \/ chan # <<>> /\ chan' = <<>>
               \/ out'.page # "none"
            => LoopCases = 1]_vars
    /\ [][out'.page # "none" =>
            /\ MainPaints
            /\ pc'.sig = pc.sig /\ pc'.poller = pc.poller]_vars

\* the tick was due, a key was in keyEventChan and the signal goroutine had
\* taken a signal: the main goroutine has painted the main page, and the key
\* is still waiting
C29_Witness ==
    /\ pc.main = "loop" /\ out.page = "main" /\ Wrote(out)
    /\ chan # <<>> /\ pc.sig = "sigStop"

-----------------------------------------------------------------------------
(* Claims about the pages, checked under Spec *)

\* main is in a page opened from the configuration menu
DialogPages == {"dlgRender", "dlgLock", "dlgRead", "dlgAct"}

\* C32: the main goroutine is at one page at a time, and the pages follow one
\* another only so: the main page is left for the configuration menu by Enter
\* alone (and for the cleanup when the context is cancelled); in the menu
\* '1'..'5' open their page, 'q', 'Q' and ESC end the menu, whose end leads
\* back to the main page, and any other key that does not exit has the menu
\* painted again; a page returns to the menu or to the "operation failed"
\* page, and ends the menu itself only by the panic on a keyboard that a
\* shutdown has cleared.
C32_Pages ==
    /\ [][pc.main = "loop" /\ pc'.main # "loop" =>
            \/ MainLoopKey /\ Head(chan) \in {10, 13} /\ pc'.main = "menuEnter"
            \/ MainLoopDone]_vars
    /\ [][MainMenuKey =>
            LET key == Head(chan)
            IN IF handleControlKey(app, key) THEN pc'.main = "menuDefer"
               ELSE IF key \in 49..53
                    THEN pc'.main = "dlgRender" /\ loc'.dlg = DialogOf(key - 48)
               ELSE IF key \in {113, 81, 27} THEN pc'.main = "menuDefer"
               ELSE pc'.main = "menu"]_vars
    /\ [][pc.main = "menuDefer" /\ pc'.main # "menuDefer" =>
            pc'.main = IF loc.panicking THEN "cleanLock" ELSE "menuReturn"]_vars
    /\ [][pc.main = "menuReturn" /\ pc'.main # "menuReturn" => pc'.main = "loop"]_vars
    /\ [][pc.main \in DialogPages /\ pc'.main \notin DialogPages =>
            \/ pc'.main = "menu"
            \/ pc'.main = "menuDefer" /\ loc'.panicking /\ app.cancelled]_vars

\* the reboot was confirmed and started, and the page has returned to the
\* configuration menu
C32_Witness ==
    /\ pc.main = "menu" /\ loc.dlg = "none" /\ loc.action = "reboot"
    /\ out.page = "reboot" /\ Wrote(out) /\ ~app.cancelled

\* C33: with -d a control byte is swallowed wherever a key is read: it is
\* logged and changes neither the page nor anything else, so the main page
\* stays, the configuration menu stays, and a page or confirmation that reads
\* it stays displayed and waits for the next key.
C33_Original ==
    [][app.disableCtrlC =>
         /\ MainLoopKey /\ Head(chan) \in ControlKeys =>
                pc'.main = "loop" /\ app' = app /\ loc' = loc
         /\ MainMenuKey /\ Head(chan) \in ControlKeys =>
                pc'.main = "menu" /\ app' = app
         /\ MainDialogRead /\ tty' # tty /\ Head(tty.stdin) \in ControlKeys =>
                /\ pc'.main \in {"dlgLock", "dlgRead"}
                /\ loc'.dlg = loc.dlg /\ app' = app]_vars

\* C34: while a page waits for its key (it has been painted and the main
\* goroutine is in app.keyboard.ReadKey()), no key typed since the page was
\* painted is in the hands of the listener or in keyEventChan: such a key is
\* read by the page.
C34_Original ==
    pc.main \in {"dlgLock", "dlgRead"} =>
        hist.held <= hist.shown /\ hist.sent <= hist.shown

-----------------------------------------------------------------------------
(* SpecStop: the application with the exits enabled, a user who opens the   *)
(* configuration menu and the reboot confirmation, and a signal.  Nothing   *)
(* is typed once the signal has been sent.                                  *)

\* Enter, '4' and 'y'
StopKeys == {13, 52, 121}

InitStop ==
    /\ InitProgram
    /\ ~app.disableCtrlC
    /\ hist = NoHist

\* the user presses a key before any signal was sent
StopTypeKey ==
    /\ ~tty.sig /\ pc.sig = "wait" /\ ~app.cancelled
    /\ \E key \in StopKeys, page \in KeyPages : ExitTypeKey(key, page)

\* the steps of the main goroutine but the return of the blocking read
StopMain ==
    \/ MainNewApplication
    \/ MainSetupSignalHandler
    \/ MainRun
    \/ MainFirstPaint
    \/ MainLoopDone
    \/ MainLoopTick
    \/ MainLoopKey
    \/ MainEnterConfigMenu
    \/ MainMenuShow
    \/ MainMenuKey
    \/ MainMenuDone
    \/ MainDialogRender
    \/ MainDialogLock
    \/ MainDialogAct
    \/ MainMenuDefer
    \/ MainMenuReturn
    \/ CleanupLock("main")
    \/ CleanupRestore("main")
    \/ CleanupClose("main")
    \/ CleanupFb("main")
    \/ MainReturn

StopSig ==
    \/ SigReceive
    \/ SigStop
    \/ SigCancel
    \/ SigDone
    \/ CleanupLock("sig")
    \/ CleanupRestore("sig")
    \/ CleanupClose("sig")
    \/ CleanupFb("sig")
    \/ SigExit

NextStop ==
    \/ StopTypeKey
    \/ SendSignal
    \/ StopMain
    \/ MainDialogRead
    \/ StopSig
    \/ ExitPoller

\* the scheduler: no goroutine that can take a step waits for ever, and a
\* blocking read returns when there is a byte to read (not by itself: a read
\* error may happen, but need not)
StopFair ==
    /\ WF_vars(StopMain) /\ WF_vars(StopSig) /\ WF_vars(ExitPoller)
    /\ WF_vars(MainDialogRead /\ tty' # tty)

SpecStop == InitStop /\ [][NextStop]_vars /\ StopFair

\* C35: once the signal goroutine has taken a signal (exits enabled), the
\* process ends, wherever the main goroutine is and without a further key.
C35_Original == (pc.sig = "sigStop") ~> (proc # "running")

\* what happens instead: the signal goroutine holds app.mu in Cleanup and
\* waits for the keyboard mutex, which the main goroutine holds in the blocking
\* read of a page, and there is nothing to read
C35_Stuck ==
    /\ pc.sig = "cleanRestore" /\ app.mu = "sig"
    /\ pc.main = "dlgRead" /\ kiMu = "main" /\ tty.stdin = <<>>
    /\ pc.poller = "done" /\ proc = "running"

\* C36: Cleanup may run twice, from the main goroutine and from the signal
\* goroutine, also at the same time: only the holder of app.mu is inside it;
\* the terminal settings are put back, the keyboard devices closed and the
\* framebuffer unmapped and closed at most once each; and an invocation that
\* finds both handles nil touches neither the keyboard nor the framebuffer.
C36_Once ==
    /\ [](\A g \in {"main", "sig"} : InCleanup(g) => app.mu = g)
    /\ [](/\ w.sys.restoreApplied <= 1
          /\ w.sys.stdinCloses <= 1 /\ w.sys.ttyCloses <= 1
          /\ fbw.munmaps <= 1 /\ fbw.devCloses <= 1)
    /\ [][\A g \in {"main", "sig"} :
            CleanupLock(g) /\ app.keyboard = "nil" /\ app.fb = "nil" =>
                pc'[g] = "cleanFb"]_vars
    /\ [][\A g \in {"main", "sig"} :
            CleanupFb(g) /\ app.keyboard = "nil" /\ app.fb = "nil" =>
                UNCHANGED <<ki, w, fb, fbw>>]_vars

\* both goroutines have been through Cleanup, the second one after the first
\* had closed the keyboard and the framebuffer
C36_Witness ==
    /\ pc.main = "cleaned" /\ pc.sig = "cleaned" /\ proc = "running"
    /\ w.sys.stdinCloses = 1 /\ fbw.devCloses = 1
    /\ app.keyboard = "nil" /\ app.fb = "nil"

\* C37: no read is called through app.keyboard once Cleanup has set it to
\* nil: neither the blocking read of a page nor the poll of the listener
\* meets a nil app.keyboard.
C37_Original ==
    [][MainDialogLock \/ (PollerRead /\ ~app.cancelled) => app.keyboard # "nil"]_vars

\* C38: the listener goroutine ends only when the context is cancelled: a
\* failed read that is no cancellation does not end it, on the main page or in
\* the configuration menu.
C38_Original ==
    [][pc.poller # "done" /\ pc'.poller = "done" => app.cancelled]_vars

\* the signal goroutine has cleared the running flag and cancelled the context
ShutDown == pc.sig \in {"cleanLock", "cleanRestore", "cleanClose", "cleanFb", "cleaned"}

\* C39: once the shutdown has cleared the running flag and cancelled the
\* context, the flag does not become true again and the main page is not
\* painted again, also when the configuration menu or one of its pages was up.
C39_Original ==
    [][ShutDown =>
         /\ ~app.running => ~app'.running
         /\ ~MainMenuReturn /\ ~(MainLoopTick /\ app.running) /\ ~MainFirstPaint]_vars


====
